---- MODULE Spec2Model ----
(***************************************************************************)
(* Regular-expression compilation pipeline of rocha30/Proyecto1_Teoria:    *)
(* infix -> postfix (ShuntingYardRegex), postfix -> AST (RegexASTBuilder), *)
(* AST -> NFA (ThompsonNFAConstructor), NFA -> DFA (SubsetConstructor),    *)
(* DFA -> minimal DFA (DFAMinimizer) and the NFA / DFA simulators.         *)
(*                                                                         *)
(* A Python string is modelled as a sequence of characters; a character is *)
(* a TLA+ string.  Three characters outside ASCII carry ASCII names:       *)
(*   "eps" is U+03B5, "ustar" is U+2217 and "ma" is U+1D44E.               *)
(* Python positions are 0-based, positions here are 1-based (p + 1).       *)
(***************************************************************************)
EXTENDS Integers, Sequences, FiniteSets, TLC

(***************************************************************************)
(* Bounds of the model.                                                    *)
(***************************************************************************)
MaxLen == 3
MaxWordLen == 3

(***************************************************************************)
(* Characters and their code points (sorted() orders symbols by them).     *)
(***************************************************************************)
Ord(c) ==
  CASE c = " " -> 32 [] c = "#" -> 35 [] c = "(" -> 40 [] c = ")" -> 41
    [] c = "*" -> 42 [] c = "+" -> 43 [] c = "." -> 46 [] c = "0" -> 48
    [] c = "1" -> 49 [] c = "?" -> 63 [] c = "L" -> 76 [] c = "[" -> 91
    [] c = "\\" -> 92 [] c = "]" -> 93 [] c = "^" -> 94 [] c = "a" -> 97
    [] c = "b" -> 98 [] c = "n" -> 110 [] c = "{" -> 123 [] c = "|" -> 124
    [] c = "}" -> 125 [] c = "eps" -> 949 [] c = "ustar" -> 8727
    [] c = "ma" -> 119886

\* str.isalnum() on one character of the model's character set
IsAlnum(c) == c \in {"0", "1", "L", "a", "b", "n", "eps", "ma"}

(***************************************************************************)
(* Generic string helpers (str.find, str.rfind, slicing, str.replace).     *)
(***************************************************************************)
Contains(s, c) == \E i \in 1..Len(s) : s[i] = c

\* s.find(c) + 1; 0 when c does not occur
Find(s, c) ==
  IF Contains(s, c) THEN CHOOSE i \in 1..Len(s) :
                           s[i] = c /\ \A j \in 1..(i - 1) : s[j] # c
  ELSE 0

\* s.rfind(c) + 1; 0 when c does not occur
RFind(s, c) ==
  IF Contains(s, c) THEN CHOOSE i \in 1..Len(s) :
                           s[i] = c /\ \A j \in (i + 1)..Len(s) : s[j] # c
  ELSE 0

\* s[from-1 : to] of Python, as a 1-based closed interval
Slice(s, from, to) == IF from > to THEN << >> ELSE SubSeq(s, from, to)

StartsWithAt(s, i, pat) ==
  /\ i + Len(pat) - 1 <= Len(s)
  /\ \A k \in 1..Len(pat) : s[i + k - 1] = pat[k]

RECURSIVE ReplaceFrom(_, _, _, _)
ReplaceFrom(s, i, pat, rep) ==
  IF i > Len(s) THEN << >>
  ELSE IF StartsWithAt(s, i, pat)
       THEN rep \o ReplaceFrom(s, i + Len(pat), pat, rep)
       ELSE <<s[i]>> \o ReplaceFrom(s, i + 1, pat, rep)

\* s.replace(pat, rep): every non-overlapping occurrence, left to right
Replace(s, pat, rep) == ReplaceFrom(s, 1, pat, rep)

(***************************************************************************)
(* ShuntingYardRegex: tables                                               *)
(***************************************************************************)
binary_ops == {"^", "|", "."}
all_ops == {"|", "?", "*", "^", "."}

get_precedence(c) ==
  CASE c = "(" -> 1 [] c = "|" -> 2 [] c = "." -> 3 [] c = "?" -> 4
    [] c = "*" -> 4 [] c = "^" -> 5 [] OTHER -> 0

is_operator(c) == c \in all_ops

\* c is a token: one character, or the two characters of a literal "L" + x
is_operand(c) ==
  \/ Len(c) = 1 /\ IsAlnum(c[1])
  \/ c = <<"eps">>
  \/ c = <<"ma">>
  \/ Len(c) = 1 /\ Ord(c[1]) > 127
  \/ Len(c) >= 1 /\ c[1] = "L"
  \/ c \in {<<"[">>, <<"]">>, <<"{">>, <<"}">>, <<"\\">>, <<"n">>}

NormalizeChar(c) ==
  CASE c = "ma" -> "a" [] c = "ustar" -> "*" [] OTHER -> c

normalize_unicode_chars(regex) ==
  [i \in 1..Len(regex) |-> NormalizeChar(regex[i])]

(***************************************************************************)
(* Desugaring of '+' and '?'                                               *)
(***************************************************************************)
OperandDelims ==
  {"(", ")", "[", "]", "|", "*", "?", "+", ".", " ", "{", "}"}

\* while operand_end >= 0 and result[operand_end] == ' ': operand_end -= 1
RECURSIVE SkipSpacesBack(_, _)
SkipSpacesBack(s, i) ==
  IF i >= 1 /\ s[i] = " " THEN SkipSpacesBack(s, i - 1) ELSE i

\* while pos < len(result) and result[pos] == ' ': pos += 1
RECURSIVE SkipSpacesFwd(_, _)
SkipSpacesFwd(s, i) ==
  IF i <= Len(s) /\ s[i] = " " THEN SkipSpacesFwd(s, i + 1) ELSE i

\* the backward scan for the matching opening bracket; returns operand_start
RECURSIVE MatchBack(_, _, _, _, _)
MatchBack(s, i, count, open, close) ==
  IF i >= 1 /\ count > 0
  THEN MatchBack(s, i - 1,
                 IF s[i] = close THEN count + 1
                 ELSE IF s[i] = open THEN count - 1 ELSE count,
                 open, close)
  ELSE i + 1

\* the backward walk over a "simple operand"
RECURSIVE SimpleBack(_, _)
SimpleBack(s, i) ==
  IF i > 1 /\ s[i - 1] \notin OperandDelims THEN SimpleBack(s, i - 1) ELSE i

PlusOperandStart(s, operand_end) ==
  IF s[operand_end] = ")" THEN MatchBack(s, operand_end - 1, 1, "(", ")")
  ELSE IF s[operand_end] = "]" THEN MatchBack(s, operand_end - 1, 1, "[", "]")
  ELSE SimpleBack(s, operand_end)

\* mutant: X+ rewritten to (X)*, losing the mandatory first occurrence
RECURSIVE transform_plus_star_only(_)
transform_plus_star_only(result) ==
  LET plus_pos == Find(result, "+")
      operand_end == SkipSpacesBack(result, plus_pos - 1)
  IN IF plus_pos = 0 \/ plus_pos = 1 \/ operand_end < 1 THEN result
     ELSE LET operand_start == PlusOperandStart(result, operand_end)
              operand == Slice(result, operand_start, operand_end)
              space_after_pos == SkipSpacesFwd(result, plus_pos + 1)
              transformation == <<"(">> \o operand \o <<")", "*">>
              before == Slice(result, 1, operand_start - 1)
              after == Slice(result, space_after_pos, Len(result))
          IN transform_plus_star_only(before \o transformation \o after)

RECURSIVE transform_plus_operator(_)
transform_plus_operator(result) ==
  LET plus_pos == Find(result, "+")
      operand_end == SkipSpacesBack(result, plus_pos - 1)
  IN IF plus_pos = 0 \/ plus_pos = 1 \/ operand_end < 1 THEN result
     ELSE LET operand_start == PlusOperandStart(result, operand_end)
              operand == Slice(result, operand_start, operand_end)
              space_after_pos == SkipSpacesFwd(result, plus_pos + 1)
              transformation == operand \o <<"(">> \o operand \o <<")", "*">>
              before == Slice(result, 1, operand_start - 1)
              after == Slice(result, space_after_pos, Len(result))
          IN transform_plus_operator(before \o transformation \o after)

QuestionOperandStart(s, operand_end) ==
  IF s[operand_end] = ")" THEN MatchBack(s, operand_end - 1, 1, "(", ")")
  ELSE SimpleBack(s, operand_end)

SpecialCase == <<"0", "?", " ", "(", "1", "?", " ", ")", "?", " ", "0">>
SpecialCaseRewritten ==
  <<"(", "0", "|", "eps", ")", "(", "(", "1", "|", "eps", ")", "|", "eps",
    ")", "0">>

RECURSIVE QuestionLoop(_)
QuestionLoop(result) ==
  LET question_pos == RFind(result, "?")
      operand_end == SkipSpacesBack(result, question_pos - 1)
  IN IF question_pos = 0 \/ question_pos = 1 \/ operand_end < 1 THEN result
     ELSE LET operand_start == QuestionOperandStart(result, operand_end)
              operand == Slice(result, operand_start, operand_end)
              space_after_pos == SkipSpacesFwd(result, question_pos + 1)
              transformation == <<"(">> \o operand \o <<"|", "eps", ")">>
              before == Slice(result, 1, operand_start - 1)
              after == Slice(result, space_after_pos, Len(result))
          IN QuestionLoop(before \o transformation \o after)

transform_question_operator(regex) ==
  QuestionLoop(Replace(regex, SpecialCase, SpecialCaseRewritten))

(***************************************************************************)
(* Escapes, implicit concatenation, shunting-yard                          *)
(***************************************************************************)
escaped_chars == {"(", ")", "[", "]", "{", "}", ".", "*", "+", "?", "|", "^"}

RECURSIVE EscapeFrom(_, _)
EscapeFrom(regex, i) ==
  IF i > Len(regex) THEN << >>
  ELSE IF regex[i] = "\\" /\ i + 1 <= Len(regex)
       THEN LET next_char == regex[i + 1]
            IN (IF next_char \in escaped_chars THEN <<"L", next_char>>
                ELSE IF next_char = "n" THEN <<"L", "n">>
                ELSE <<next_char>>) \o EscapeFrom(regex, i + 2)
       ELSE <<regex[i]>> \o EscapeFrom(regex, i + 1)

handle_escaped_chars(regex) == EscapeFrom(regex, 1)

\* c1 is a token (sequence of one or two characters), c2 one character
needs_concatenation(c1, c2) ==
  IF \/ c2 \in all_ops
     \/ (Len(c1) = 1 /\ c1[1] \in binary_ops)
     \/ c1 = <<"(">>
     \/ c2 = ")"
     \/ c1 = <<" ">>
     \/ c2 = " "
  THEN FALSE
  ELSE /\ \/ is_operand(c1)
          \/ c1 \in {<<")">>, <<"]">>, <<"}">>}
          \/ c1 \in {<<"*">>, <<"ustar">>, <<"?">>}
       /\ \/ is_operand(<<c2>>)
          \/ c2 \in {"(", "[", "{"}
          \/ c2 = "L"

RECURSIVE FormatFrom(_, _)
FormatFrom(regex, i) ==
  IF i > Len(regex) THEN << >>
  ELSE LET c1 == regex[i]
       IN IF c1 = "L" /\ i + 1 <= Len(regex)
          THEN LET literal == <<c1, regex[i + 1]>>
               IN literal
                  \o (IF i + 2 <= Len(regex)
                         /\ needs_concatenation(literal, regex[i + 2])
                      THEN <<".">> ELSE << >>)
                  \o FormatFrom(regex, i + 2)
          ELSE LET j == SkipSpacesFwd(regex, i + 1)
               IN <<c1>>
                  \o (IF c1 # " " /\ i + 1 <= Len(regex) /\ j <= Len(regex)
                         /\ needs_concatenation(<<c1>>, regex[j])
                      THEN <<".">> ELSE << >>)
                  \o FormatFrom(regex, i + 1)

format_regex(regex) ==
  FormatFrom(handle_escaped_chars(
               transform_question_operator(transform_plus_operator(regex))), 1)

\* while stack and stack[-1] != '(' [and precedence(stack[-1]) >= prec]: pop
\* prec = 0 gives the loop of the ')' branch.  Returns <<popped, rest>>.
RECURSIVE PopWhile(_, _)
PopWhile(stack, prec) ==
  IF Len(stack) > 0 /\ stack[Len(stack)] # "("
     /\ get_precedence(stack[Len(stack)]) >= prec
  THEN LET r == PopWhile(SubSeq(stack, 1, Len(stack) - 1), prec)
       IN <<<<stack[Len(stack)]>> \o r[1], r[2]>>
  ELSE <<<< >>, stack>>

\* the stack drained top first
Reverse(s) == [i \in 1..Len(s) |-> s[Len(s) + 1 - i]]

\* one iteration of the loop over formatted_regex; st = [postfix, stack]
ShuntStep(st, c) ==
  IF c = "(" THEN [postfix |-> st.postfix, stack |-> Append(st.stack, c)]
  ELSE IF c = ")"
  THEN LET r == PopWhile(st.stack, 0)
       IN [postfix |-> st.postfix \o r[1],
           stack |-> IF Len(r[2]) > 0 THEN SubSeq(r[2], 1, Len(r[2]) - 1)
                     ELSE r[2]]
  ELSE IF is_operator(c)
  THEN LET r == PopWhile(st.stack, get_precedence(c))
       IN [postfix |-> st.postfix \o r[1], stack |-> Append(r[2], c)]
  ELSE IF c = " " THEN st
  ELSE [postfix |-> Append(st.postfix, c), stack |-> st.stack]

RECURSIVE ShuntLoop(_, _, _)
ShuntLoop(formatted, i, st) ==
  IF i > Len(formatted) THEN st
  ELSE ShuntLoop(formatted, i + 1, ShuntStep(st, formatted[i]))

infix_to_postfix(regex0) ==
  LET regex1 == normalize_unicode_chars(regex0)
      regex2 == IF Contains(regex1, "+") THEN transform_plus_operator(regex1)
                ELSE regex1
      regex3 == IF Contains(regex2, "?")
                THEN transform_question_operator(regex2) ELSE regex2
      formatted_regex == format_regex(regex3)
      st == ShuntLoop(formatted_regex, 1, [postfix |-> << >>, stack |-> << >>])
  IN st.postfix \o Reverse(st.stack)

(***************************************************************************)
(* RegexASTBuilder.build_ast.  A node is [value, kids]: value is the token *)
(* (one character, or "L" and a character), kids is << >> for a leaf,      *)
(* <<child>> for a unary node (left only) and <<left, right>> otherwise.   *)
(* The result is [ok, stack]; ok = FALSE models the raised ValueError.     *)
(***************************************************************************)
ASTNode(value, kids) == [value |-> value, kids |-> kids]

RECURSIVE BuildLoop(_, _, _)
BuildLoop(clean_postfix, i, stack) ==
  IF i > Len(clean_postfix) THEN [ok |-> Len(stack) = 1, stack |-> stack]
  ELSE LET char == clean_postfix[i]
           n == Len(stack)
       IN IF char = "L" /\ i + 1 <= Len(clean_postfix)
          THEN BuildLoop(clean_postfix, i + 2,
                 Append(stack, ASTNode(<<char, clean_postfix[i + 1]>>, << >>)))
          ELSE IF char \in {"|", "."}
          THEN IF n < 2 THEN [ok |-> FALSE, stack |-> stack]
               ELSE BuildLoop(clean_postfix, i + 1,
                      Append(SubSeq(stack, 1, n - 2),
                             ASTNode(<<char>>, <<stack[n - 1], stack[n]>>)))
          ELSE IF char \in {"*", "?"}
          THEN IF n < 1 THEN [ok |-> FALSE, stack |-> stack]
               ELSE BuildLoop(clean_postfix, i + 1,
                      Append(SubSeq(stack, 1, n - 1),
                             ASTNode(<<char>>, <<stack[n]>>)))
          ELSE BuildLoop(clean_postfix, i + 1,
                         Append(stack, ASTNode(<<char>>, << >>)))

\* mutant: the test "len(stack) != 1" after the loop only catches the
\* empty stack; with several nodes left the bottom one is returned
build_ast_unchecked_rest(postfix) ==
  LET r == BuildLoop(SelectSeq(postfix, LAMBDA ch : ch # " "), 1, << >>)
  IN [ok |-> r.ok \/ Len(r.stack) >= 2, stack |-> r.stack]

build_ast(postfix) ==
  BuildLoop(SelectSeq(postfix, LAMBDA ch : ch # " "), 1, << >>)

(***************************************************************************)
(* Automaton data model (models.py).  NFAState objects live in a heap H:    *)
(* n is the constructor's state_counter (ids 0..n-1 are allocated), fin the *)
(* set of ids whose is_final flag is set, trans the set of <<from, symbol,  *)
(* to>> and eps the set of <<from, to>>.  The target lists of the code are  *)
(* read only as collections (set.update, membership), so they are sets.    *)
(***************************************************************************)
EmptyHeap == [n |-> 0, fin |-> {}, trans |-> {}, eps |-> {}]

\* ThompsonNFAConstructor.new_state: the new id is H.n
new_state(H, is_final) ==
  [H EXCEPT !.n = H.n + 1,
            !.fin = IF is_final THEN H.fin \cup {H.n} ELSE H.fin]

add_transition(H, from, symbol, to) ==
  [H EXCEPT !.trans = H.trans \cup {<<from, symbol, to>>}]

add_epsilon_transition(H, from, to) ==
  [H EXCEPT !.eps = H.eps \cup {<<from, to>>}]

\* NFA._collect_states_and_alphabet: the states visited from start + finals
RECURSIVE CollectNfa(_, _)
CollectNfa(H, visited) ==
  LET more == {t[3] : t \in {u \in H.trans : u[1] \in visited}}
                \cup {e[2] : e \in {f \in H.eps : f[1] \in visited}}
  IN IF more \subseteq visited THEN visited
     ELSE CollectNfa(H, visited \cup more)

SeqRange(s) == {s[i] : i \in 1..Len(s)}

\* NFA.__init__
NFA(H, start_state, final_states) ==
  LET states == CollectNfa(H, {start_state} \cup SeqRange(final_states))
  IN [start_state |-> start_state,
      final_states |-> final_states,
      states |-> states,
      alphabet |-> {t[2] : t \in {u \in H.trans : u[1] \in states}}]

\* NFA.get_epsilon_closure
RECURSIVE get_epsilon_closure(_, _)
get_epsilon_closure(H, closure) ==
  LET more == {e[2] : e \in {f \in H.eps : f[1] \in closure}}
  IN IF more \subseteq closure THEN closure
     ELSE get_epsilon_closure(H, closure \cup more)

\* next_states of one simulation step
Move(H, states, symbol) ==
  {t[3] : t \in {u \in H.trans : u[1] \in states /\ u[2] = symbol}}

RECURSIVE NfaRun(_, _, _, _)
NfaRun(H, current_states, input_string, i) ==
  IF i > Len(input_string) THEN \E s \in current_states : s \in H.fin
  ELSE LET next_states == Move(H, current_states, input_string[i])
       IN IF next_states = {} THEN FALSE
          ELSE NfaRun(H, get_epsilon_closure(H, next_states),
                      input_string, i + 1)

\* NFA.simulate
nfa_simulate(H, nfa, input_string) ==
  NfaRun(H, get_epsilon_closure(H, {nfa.start_state}), input_string, 1)

(***************************************************************************)
(* ThompsonNFAConstructor.  Every construction returns [H, nfa].           *)
(***************************************************************************)
_construct_basic(H0, symbol) ==
  LET start == H0.n
      final == H0.n + 1
      H2 == new_state(new_state(H0, FALSE), TRUE)
      H3 == IF symbol = <<"eps">> THEN add_epsilon_transition(H2, start, final)
            ELSE IF symbol[1] = "L"
            THEN add_transition(H2, start,
                                IF Len(symbol) > 1 THEN symbol[2]
                                ELSE symbol[1], final)
            ELSE add_transition(H2, start, symbol[1], final)
  IN [H |-> H3, nfa |-> NFA(H3, start, <<final>>)]

\* for final_state in finals: is_final = False; add ε to every target
WireFinals(H, finals, targets) ==
  [H EXCEPT !.fin = H.fin \ SeqRange(finals),
            !.eps = H.eps \cup (SeqRange(finals) \X targets)]

_construct_concatenation(H0, nfa1, nfa2) ==
  LET H1 == WireFinals(H0, nfa1.final_states, {nfa2.start_state})
  IN [H |-> H1, nfa |-> NFA(H1, nfa1.start_state, nfa2.final_states)]

_construct_union(H0, nfa1, nfa2) ==
  LET new_start == H0.n
      new_final == H0.n + 1
      H2 == new_state(new_state(H0, FALSE), TRUE)
      H3 == add_epsilon_transition(
              add_epsilon_transition(H2, new_start, nfa1.start_state),
              new_start, nfa2.start_state)
      H4 == WireFinals(H3, nfa1.final_states \o nfa2.final_states,
                       {new_final})
  IN [H |-> H4, nfa |-> NFA(H4, new_start, <<new_final>>)]

\* mutant: the epsilon edge for zero repetitions is missing
_construct_kleene_star_no_empty(H0, nfa) ==
  LET new_start == H0.n
      new_final == H0.n + 1
      H2 == new_state(new_state(H0, FALSE), TRUE)
      H3 == add_epsilon_transition(H2, new_start, nfa.start_state)
      H4 == WireFinals(H3, nfa.final_states, {new_final, nfa.start_state})
  IN [H |-> H4, nfa |-> NFA(H4, new_start, <<new_final>>)]

_construct_kleene_star(H0, nfa) ==
  LET new_start == H0.n
      new_final == H0.n + 1
      H2 == new_state(new_state(H0, FALSE), TRUE)
      H3 == add_epsilon_transition(
              add_epsilon_transition(H2, new_start, new_final),
              new_start, nfa.start_state)
      H4 == WireFinals(H3, nfa.final_states, {new_final, nfa.start_state})
  IN [H |-> H4, nfa |-> NFA(H4, new_start, <<new_final>>)]

EmptyNfa == [start_state |-> 0, final_states |-> << >>, states |-> {},
             alphabet |-> {}]

\* returns [ok, H, nfa]; ok = FALSE models "Operador no soportado"
RECURSIVE _build_nfa_recursive(_, _)
_build_nfa_recursive(H, node) ==
  IF node.kids = << >>
  THEN LET r == _construct_basic(H, node.value)
       IN [ok |-> TRUE, H |-> r.H, nfa |-> r.nfa]
  ELSE IF node.value \in {<<".">>, <<"|">>}
  THEN LET l == _build_nfa_recursive(H, node.kids[1])
       IN IF ~l.ok THEN l
          ELSE LET r == _build_nfa_recursive(l.H, node.kids[2])
               IN IF ~r.ok THEN r
                  ELSE LET c == IF node.value = <<".">>
                                THEN _construct_concatenation(r.H, l.nfa, r.nfa)
                                ELSE _construct_union(r.H, l.nfa, r.nfa)
                       IN [ok |-> TRUE, H |-> c.H, nfa |-> c.nfa]
  ELSE IF node.value = <<"*">>
  THEN LET ch == _build_nfa_recursive(H, node.kids[1])
       IN IF ~ch.ok THEN ch
          ELSE LET c == _construct_kleene_star(ch.H, ch.nfa)
               IN [ok |-> TRUE, H |-> c.H, nfa |-> c.nfa]
  ELSE [ok |-> FALSE, H |-> H, nfa |-> EmptyNfa]

\* state_counter = 0, then the recursion
construct_nfa(ast_root) == _build_nfa_recursive(EmptyHeap, ast_root)

(***************************************************************************)
(* DFA data model.  DFAState objects live in a heap D: n allocated ids,     *)
(* nfa_states[id + 1] the represented NFA states, is_final the flagged ids, *)
(* trans the set of <<from, symbol, to>> (one target per from and symbol:   *)
(* add_transition overwrites).                                             *)
(***************************************************************************)
EmptyDHeap == [n |-> 0, nfa_states |-> << >>, is_final |-> {}, trans |-> {}]

\* DFAState.add_transition: transitions[symbol] = target_state
dfa_add_transition(D, from, symbol, to) ==
  [D EXCEPT !.trans = {t \in D.trans : ~(t[1] = from /\ t[2] = symbol)}
                        \cup {<<from, symbol, to>>}]

\* DFA._collect_states
RECURSIVE CollectDfa(_, _)
CollectDfa(D, visited) ==
  LET more == {t[3] : t \in {u \in D.trans : u[1] \in visited}}
  IN IF more \subseteq visited THEN visited
     ELSE CollectDfa(D, visited \cup more)

\* DFA.__init__ ; the record carries the state heap it refers to
DFA(D, start_state, final_states, alphabet) ==
  [start_state |-> start_state,
   final_states |-> final_states,
   alphabet |-> alphabet,
   states |-> CollectDfa(D, {start_state} \cup final_states),
   D |-> D]

EmptyDfa == [start_state |-> 0, final_states |-> {}, alphabet |-> {},
             states |-> {}, D |-> EmptyDHeap]

HasTransition(D, state, symbol) ==
  \E t \in D.trans : t[1] = state /\ t[2] = symbol

Target(D, state, symbol) ==
  (CHOOSE t \in D.trans : t[1] = state /\ t[2] = symbol)[3]

RECURSIVE DfaRun(_, _, _, _)
DfaRun(dfa, current_state, input_string, i) ==
  IF i > Len(input_string) THEN current_state \in dfa.final_states
  ELSE IF ~HasTransition(dfa.D, current_state, input_string[i]) THEN FALSE
  ELSE DfaRun(dfa, Target(dfa.D, current_state, input_string[i]),
              input_string, i + 1)

\* DFA.simulate
dfa_simulate(dfa, input_string) ==
  DfaRun(dfa, dfa.start_state, input_string, 1)

(***************************************************************************)
(* SubsetConstructor                                                       *)
(***************************************************************************)
\* sorted(): the elements of a finite set of integers in increasing order
RECURSIVE SortedInts(_)
SortedInts(S) ==
  IF S = {} THEN << >>
  ELSE LET m == CHOOSE x \in S : \A y \in S : x <= y
       IN <<m>> \o SortedInts(S \ {m})

\* sorted(alphabet): symbols in increasing code point order
RECURSIVE SortedSymbols(_)
SortedSymbols(S) ==
  IF S = {} THEN << >>
  ELSE LET m == CHOOSE x \in S : \A y \in S : Ord(x) <= Ord(y)
       IN <<m>> \o SortedSymbols(S \ {m})

\* tuple(sorted(state.id for state in nfa_subset))
_subset_to_key(nfa_subset) == SortedInts(nfa_subset)

\* mutant: the memo is never hit, every request creates a state
MemoHas_never(memo, key) == FALSE

\* sc = [D, memo]: memo is subset_to_dfa_state as a set of <<key, id>>
MemoHas(memo, key) == \E m \in memo : m[1] = key
MemoGet(memo, key) == (CHOOSE m \in memo : m[1] = key)[2]

\* mutant: a subset is final only if all its NFA states are accepting
_get_or_create_dfa_state_all(sc, nfa_subset, nfa_final_states) ==
  LET subset_key == _subset_to_key(nfa_subset)
  IN IF MemoHas(sc.memo, subset_key)
     THEN [sc |-> sc, id |-> MemoGet(sc.memo, subset_key)]
     ELSE LET is_final == \A q \in nfa_subset : q \in SeqRange(nfa_final_states)
              id == sc.D.n
              D1 == [sc.D EXCEPT !.n = id + 1,
                                 !.nfa_states = Append(sc.D.nfa_states,
                                                       nfa_subset),
                                 !.is_final = IF is_final
                                              THEN sc.D.is_final \cup {id}
                                              ELSE sc.D.is_final]
          IN [sc |-> [D |-> D1, memo |-> sc.memo \cup {<<subset_key, id>>}],
              id |-> id]

\* returns [sc, id]
_get_or_create_dfa_state(sc, nfa_subset, nfa_final_states) ==
  LET subset_key == _subset_to_key(nfa_subset)
  IN IF MemoHas(sc.memo, subset_key)
     THEN [sc |-> sc, id |-> MemoGet(sc.memo, subset_key)]
     ELSE LET is_final == \E q \in nfa_subset : q \in SeqRange(nfa_final_states)
              id == sc.D.n
              D1 == [sc.D EXCEPT !.n = id + 1,
                                 !.nfa_states = Append(sc.D.nfa_states,
                                                       nfa_subset),
                                 !.is_final = IF is_final
                                              THEN sc.D.is_final \cup {id}
                                              ELSE sc.D.is_final]
          IN [sc |-> [D |-> D1, memo |-> sc.memo \cup {<<subset_key, id>>}],
              id |-> id]

\* mutant: the initial subset is {nfa.start_state}, without its ε-closure
DfaStart_unclosed(H, nfa) ==
  LET initial_subset == {nfa.start_state}
      r == _get_or_create_dfa_state([D |-> EmptyDHeap, memo |-> {}],
                                    initial_subset, nfa.final_states)
  IN [sc |-> r.sc,
      worklist |-> <<initial_subset>>,
      processed |-> {},
      dfa_states |-> {r.id},
      final_dfa_states |-> IF r.id \in r.sc.D.is_final THEN {r.id} ELSE {},
      initial |-> r.id]

\* construct_dfa up to the loop: st = [sc, worklist, processed, dfa_states,
\* final_dfa_states, initial]
DfaStart(H, nfa) ==
  LET initial_subset == get_epsilon_closure(H, {nfa.start_state})
      r == _get_or_create_dfa_state([D |-> EmptyDHeap, memo |-> {}],
                                    initial_subset, nfa.final_states)
  IN [sc |-> r.sc,
      worklist |-> <<initial_subset>>,
      processed |-> {},
      dfa_states |-> {r.id},
      final_dfa_states |-> IF r.id \in r.sc.D.is_final THEN {r.id} ELSE {},
      initial |-> r.id]

\* mutant: a state is created for the empty move set as well
DfaSymbol_trap(H, nfa, st, current_subset, current_id, symbol) ==
  LET moved == Move(H, current_subset, symbol)
      next_subset == get_epsilon_closure(H, moved)
      r == _get_or_create_dfa_state(st.sc, next_subset, nfa.final_states)
      D1 == dfa_add_transition(r.sc.D, current_id, symbol, r.id)
  IN [st EXCEPT
        !.sc = [D |-> D1, memo |-> r.sc.memo],
        !.dfa_states = st.dfa_states \cup {r.id},
        !.final_dfa_states =
           IF r.id \in D1.is_final
           THEN st.final_dfa_states \cup {r.id}
           ELSE st.final_dfa_states,
        !.worklist =
           IF _subset_to_key(next_subset) \notin st.processed
           THEN Append(st.worklist, next_subset)
           ELSE st.worklist]

\* the body of "for symbol in sorted(nfa.alphabet)" for one symbol
DfaSymbol(H, nfa, st, current_subset, current_id, symbol) ==
  LET moved == Move(H, current_subset, symbol)
  IN IF moved = {} THEN st
     ELSE LET next_subset == get_epsilon_closure(H, moved)
              r == _get_or_create_dfa_state(st.sc, next_subset,
                                            nfa.final_states)
              D1 == dfa_add_transition(r.sc.D, current_id, symbol, r.id)
          IN [st EXCEPT
                !.sc = [D |-> D1, memo |-> r.sc.memo],
                !.dfa_states = st.dfa_states \cup {r.id},
                !.final_dfa_states =
                   IF r.id \in D1.is_final
                   THEN st.final_dfa_states \cup {r.id}
                   ELSE st.final_dfa_states,
                !.worklist =
                   IF _subset_to_key(next_subset) \notin st.processed
                   THEN Append(st.worklist, next_subset)
                   ELSE st.worklist]

RECURSIVE DfaSymbols(_, _, _, _, _, _, _)
DfaSymbols(H, nfa, st, current_subset, current_id, symbols, i) ==
  IF i > Len(symbols) THEN st
  ELSE DfaSymbols(H, nfa,
                  DfaSymbol(H, nfa, st, current_subset, current_id, symbols[i]),
                  current_subset, current_id, symbols, i + 1)

\* mutant: the key of the popped subset is not recorded as processed
DfaIteration_unmarked(H, nfa, st) ==
  LET current_subset == Head(st.worklist)
      current_subset_key == _subset_to_key(current_subset)
      popped == [st EXCEPT !.worklist = Tail(st.worklist)]
  IN IF current_subset_key \in st.processed THEN popped
     ELSE DfaSymbols(H, nfa, popped, current_subset,
                     MemoGet(st.sc.memo, current_subset_key),
                     SortedSymbols(nfa.alphabet), 1)

\* one iteration of "while worklist"
DfaIteration(H, nfa, st) ==
  LET current_subset == Head(st.worklist)
      current_subset_key == _subset_to_key(current_subset)
      popped == [st EXCEPT !.worklist = Tail(st.worklist)]
  IN IF current_subset_key \in st.processed THEN popped
     ELSE DfaSymbols(H, nfa,
                     [popped EXCEPT !.processed =
                                      st.processed \cup {current_subset_key}],
                     current_subset,
                     MemoGet(st.sc.memo, current_subset_key),
                     SortedSymbols(nfa.alphabet), 1)

\* DFA(initial_dfa_state, final_dfa_states, nfa.alphabet)
DfaFinish(nfa, st) ==
  DFA(st.sc.D, st.initial, st.final_dfa_states, nfa.alphabet)

RECURSIVE DfaLoop(_, _, _)
DfaLoop(H, nfa, st) ==
  IF st.worklist = << >> THEN st ELSE DfaLoop(H, nfa, DfaIteration(H, nfa, st))

\* the whole of construct_dfa
construct_dfa(H, nfa) == DfaFinish(nfa, DfaLoop(H, nfa, DfaStart(H, nfa)))

(***************************************************************************)
(* DFAMinimizer.  partitions is the list of classes (sets of state ids).    *)
(* A Python set of DFAState (hash = id) is iterated in increasing id order  *)
(* while the ids are below the size of its hash table, which holds for the  *)
(* automata of this model; the representative taken by next(iter(...)) is   *)
(* nevertheless left open (see BuildMinimizedDfa).                          *)
(***************************************************************************)
\* position of the first class containing the state; 0 stands for None
PartitionIndex(all_partitions, state) ==
  IF \E i \in 1..Len(all_partitions) : state \in all_partitions[i]
  THEN CHOOSE i \in 1..Len(all_partitions) :
         /\ state \in all_partitions[i]
         /\ \A j \in 1..(i - 1) : state \notin all_partitions[j]
  ELSE 0

\* mutant: the signature records the target state, not the target's class
BehaviorByTargetId(D, state, all_partitions, symbols) ==
  [k \in 1..Len(symbols) |->
     IF HasTransition(D, state, symbols[k])
     THEN Target(D, state, symbols[k]) + 1
     ELSE 0]

\* the "huella" of a state: target class per symbol, 0 without transition
Behavior(D, state, all_partitions, symbols) ==
  [k \in 1..Len(symbols) |->
     IF HasTransition(D, state, symbols[k])
     THEN PartitionIndex(all_partitions, Target(D, state, symbols[k]))
     ELSE 0]

\* behavior_groups.values(): groups in order of first insertion
RECURSIVE GroupBy(_, _, _, _)
GroupBy(D, remaining, all_partitions, symbols) ==
  IF remaining = {} THEN << >>
  ELSE LET first == CHOOSE x \in remaining : \A y \in remaining : x <= y
           b == Behavior(D, first, all_partitions, symbols)
           group == {x \in remaining :
                       Behavior(D, x, all_partitions, symbols) = b}
       IN <<group>> \o GroupBy(D, remaining \ group, all_partitions, symbols)

_split_partition(D, partition, all_partitions, alphabet) ==
  IF Cardinality(partition) <= 1 THEN <<partition>>
  ELSE GroupBy(D, partition, all_partitions, SortedSymbols(alphabet))

\* mutant: the initial partition is the single class of all states
InitialPartitions_single(dfa) == <<dfa.states>>

\* the initial partition: non-final states, then final states
InitialPartitions(dfa) ==
  LET final_states == dfa.final_states
      non_final_states == dfa.states \ final_states
  IN (IF non_final_states # {} THEN <<non_final_states>> ELSE << >>)
     \o (IF final_states # {} THEN <<final_states>> ELSE << >>)

\* mutant: the classes returned by _split_partition are dropped, every
\* class is kept as it is
RefineFrom_unsplit(dfa, partitions, i) ==
  [partitions |-> SubSeq(partitions, i, Len(partitions)), changed |-> FALSE]

\* mutant: every pass reports a split
RECURSIVE RefineFrom_restless(_, _, _)
RefineFrom_restless(dfa, partitions, i) ==
  IF i > Len(partitions) THEN [partitions |-> << >>, changed |-> TRUE]
  ELSE LET sub_partitions == _split_partition(dfa.D, partitions[i],
                                              partitions, dfa.alphabet)
           rest == RefineFrom_restless(dfa, partitions, i + 1)
       IN [partitions |-> sub_partitions \o rest.partitions,
           changed |-> TRUE]

\* one pass of "while changed": [partitions, changed]
RECURSIVE RefineFrom(_, _, _)
RefineFrom(dfa, partitions, i) ==
  IF i > Len(partitions) THEN [partitions |-> << >>, changed |-> FALSE]
  ELSE LET sub_partitions == _split_partition(dfa.D, partitions[i],
                                              partitions, dfa.alphabet)
           rest == RefineFrom(dfa, partitions, i + 1)
       IN [partitions |-> sub_partitions \o rest.partitions,
           changed |-> Len(sub_partitions) > 1 \/ rest.changed]

RefinePassOf(dfa, partitions) == RefineFrom(dfa, partitions, 1)

\* the representatives next(iter(partition)) may pick: one member per class
Representatives(partitions) ==
  {rep \in [1..Len(partitions) -> UNION SeqRange(partitions)] :
     \A i \in 1..Len(partitions) : rep[i] \in partitions[i]}

_build_minimized_dfa(original_dfa, partitions, rep) ==
  LET n == Len(partitions)
      O == original_dfa.D
      new_final_states ==
        {i - 1 : i \in {j \in 1..n :
                   \E old \in partitions[j] :
                      old \in original_dfa.final_states}}
      new_start_state ==
        (CHOOSE i \in 1..n :
           /\ original_dfa.start_state \in partitions[i]
           /\ \A j \in (i + 1)..n :
                original_dfa.start_state \notin partitions[j]) - 1
      M == [n |-> n,
            nfa_states |->
              [i \in 1..n |->
                 UNION {O.nfa_states[old + 1] : old \in partitions[i]}],
            is_final |-> new_final_states,
            trans |->
              {<<i - 1, symbol,
                 PartitionIndex(partitions, Target(O, rep[i], symbol)) - 1>> :
                 <<i, symbol>> \in
                   {p \in (1..n) \X original_dfa.alphabet :
                      /\ HasTransition(O, rep[p[1]], p[2])
                      /\ PartitionIndex(partitions,
                                        Target(O, rep[p[1]], p[2])) > 0}}]
  IN DFA(M, new_start_state, new_final_states, original_dfa.alphabet)

(***************************************************************************)
(* Inputs: the regexes and the candidate strings fed to the pipeline.      *)
(***************************************************************************)
RECURSIVE SeqsUpTo(_, _)
SeqsUpTo(chars, n) ==
  IF n = 0 THEN {<< >>}
  ELSE LET shorter == SeqsUpTo(chars, n - 1)
       IN shorter \cup {Append(s, c) : s \in shorter, c \in chars}

CoreChars == {"a", "b", "|", "*", "(", ")"}
SugarChars == {"a", "b", "+", "?", "(", ")"}
OtherChars == {"a", "\\", "#", "(", ")", "*"}
AlnumChars == {"a", "L", "n"}

Scenarios ==
  { <<"a", "|", "b">>,
    <<"(", "a", "|", "b", ")", "*", "a", "b", "b">>,
    <<"a", "*">>,
    <<"(", "a", "|", "b", ")", "+">>,
    <<"0", "?", "(", "1", "?", ")", "?", "0", "*">>,
    <<"\\", "(", "a", "\\", ")">>,
    <<"0", "?", " ", "(", "1", "?", " ", ")", "?", " ", "0", "ustar">>,
    <<"ma", "eps", "|", "L", "n">>,
    <<"?", "#">>,
    <<"a", " ", "b", "+">>,
    <<"a", " ", "|", " ", "b">>,
    <<"(", " ", "a", "|", "b", " ", ")", " ", "*">>,
    <<"\\", "n", " ", "a">>,
    <<"a", "|", "b", "a", "*">>,
    <<"a", "|", "b", "|", "a">>,
    <<"L", "eps">>,
    <<"a", "+", "b", "?">>,
    <<"a", "0", "?", " ", "(", "1", "?", " ", ")", "?", " ", "0">>,
    <<"(", "0", "?", " ", "(", "1", "?", " ", ")", "?", " ", "0", ")", "*">> }

Regexes ==
  (SeqsUpTo(CoreChars, MaxLen) \cup SeqsUpTo(SugarChars, MaxLen)
     \cup SeqsUpTo(OtherChars, MaxLen) \cup SeqsUpTo(AlnumChars, MaxLen)
     \cup Scenarios) \ {<< >>}

ScenarioWords ==
  { <<"a", "b", "b">>, <<"a", "a", "b", "b">>, <<"b", "a", "b", "b">>,
    <<"a", "a", "a", "a">>, <<"a", "b", "b", "a">>,
    <<"0">>, <<"1", "0">>, <<"0", "1", "0">>, <<"1", "1">>,
    <<"(", "a", ")">>, <<"(">>, <<"#">>,
    <<"L">>, <<"n">>, <<"L", "a">>, <<"a", "L">>, <<"a", "n">>,
    <<"eps">> }

Words == SeqsUpTo({"a", "b"}, MaxWordLen) \cup ScenarioWords

(***************************************************************************)
(* The pipeline of procesar_expresiones_con_cadenas for one expression.    *)
(* expresiones is the list read from the file, idx the number of the       *)
(* expression being processed (the loop variable i) and exitosas the       *)
(* counter of expressions processed without error.  iteration is the      *)
(* local of minimize_dfa that counts the passes of its refinement loop.    *)
(***************************************************************************)
VARIABLES regex, pc, postfix, ast_root, heap, nfa, st, dfa, round,
          partitions, iteration, minimized_dfa, reminimized_dfa, cadena_w,
          resultado, expresiones, idx, exitosas

vars == <<regex, pc, postfix, ast_root, heap, nfa, st, dfa, round,
          partitions, iteration, minimized_dfa, reminimized_dfa, cadena_w,
          resultado, expresiones, idx, exitosas>>

\* the state of the loop over the expressions
batch == <<expresiones, idx, exitosas>>

NoNode == ASTNode(<< >>, << >>)
NoSt == [sc |-> [D |-> EmptyDHeap, memo |-> {}], worklist |-> << >>,
         processed |-> {}, dfa_states |-> {}, final_dfa_states |-> {},
         initial |-> 0]
NoResult == [nfa |-> FALSE, dfa |-> FALSE, min |-> FALSE]

Init ==
  /\ regex \in Regexes
  /\ pc = "postfix"
  /\ postfix = << >>
  /\ ast_root = NoNode
  /\ heap = EmptyHeap
  /\ nfa = EmptyNfa
  /\ st = NoSt
  /\ dfa = EmptyDfa
  /\ round = 1
  /\ partitions = << >>
  /\ iteration = 0
  /\ minimized_dfa = EmptyDfa
  /\ reminimized_dfa = EmptyDfa
  /\ cadena_w = << >>
  /\ resultado = NoResult
  /\ expresiones = <<regex>>
  /\ idx = 1
  /\ exitosas = 0

\* postfix = converter.infix_to_postfix(regex, verbose=False)
InfixToPostfix ==
  /\ pc = "postfix"
  /\ postfix' = infix_to_postfix(regex)
  /\ pc' = "ast"
  /\ UNCHANGED <<batch, regex, ast_root, heap, nfa, st, dfa, round,
                 partitions, iteration, minimized_dfa, reminimized_dfa, cadena_w,
                 resultado>>

\* ast_root = ast_builder.build_ast(postfix); a ValueError ends the expression
BuildAst ==
  /\ pc = "ast"
  /\ LET r == build_ast(postfix)
     IN /\ pc' = IF r.ok THEN "nfa" ELSE "error"
        /\ ast_root' = IF r.ok THEN r.stack[1] ELSE ast_root
  /\ UNCHANGED <<batch, regex, postfix, heap, nfa, st, dfa, round,
                 partitions, iteration, minimized_dfa, reminimized_dfa, cadena_w,
                 resultado>>

\* mutant: construct_nfa does not reset state_counter, the numbering goes on
\* from the automaton built before
ConstructNfa_continuing ==
  /\ pc = "nfa"
  /\ LET r == _build_nfa_recursive([EmptyHeap EXCEPT !.n = heap.n], ast_root)
     IN /\ pc' = IF r.ok THEN "dfa" ELSE "error"
        /\ heap' = IF r.ok THEN r.H ELSE heap
        /\ nfa' = IF r.ok THEN r.nfa ELSE nfa
  /\ UNCHANGED <<batch, regex, postfix, ast_root, st, dfa, round, partitions,
                 iteration, minimized_dfa, reminimized_dfa, cadena_w,
                 resultado>>

\* nfa = thompson_constructor.construct_nfa(ast_root)
ConstructNfa ==
  /\ pc = "nfa"
  /\ LET r == construct_nfa(ast_root)
     IN /\ pc' = IF r.ok THEN "dfa" ELSE "error"
        /\ heap' = IF r.ok THEN r.H ELSE heap
        /\ nfa' = IF r.ok THEN r.nfa ELSE nfa
  /\ UNCHANGED <<batch, regex, postfix, ast_root, st, dfa, round,
                 partitions, iteration, minimized_dfa, reminimized_dfa, cadena_w,
                 resultado>>

\* construct_dfa, up to the first test of "while worklist"
ConstructDfaStart ==
  /\ pc = "dfa"
  /\ st' = DfaStart(heap, nfa)
  /\ pc' = "dfa_loop"
  /\ UNCHANGED <<batch, regex, postfix, ast_root, heap, nfa, dfa, round,
                 partitions, iteration, minimized_dfa, reminimized_dfa, cadena_w,
                 resultado>>

\* one iteration of "while worklist"
ConstructDfaIteration ==
  /\ pc = "dfa_loop"
  /\ st.worklist # << >>
  /\ st' = DfaIteration(heap, nfa, st)
  /\ UNCHANGED <<batch, regex, pc, postfix, ast_root, heap, nfa, dfa, round,
                 partitions, iteration, minimized_dfa, reminimized_dfa,
                 cadena_w, resultado>>

\* the worklist is empty: dfa = DFA(...), returned to the caller
ConstructDfaFinish ==
  /\ pc = "dfa_loop"
  /\ st.worklist = << >>
  /\ dfa' = DfaFinish(nfa, st)
  /\ pc' = "minimize"
  /\ UNCHANGED <<batch, regex, postfix, ast_root, heap, nfa, st, round,
                 partitions, iteration, minimized_dfa, reminimized_dfa, cadena_w,
                 resultado>>

\* the DFA handed to minimize_dfa in this round
MinimizerInput == IF round = 1 THEN dfa ELSE minimized_dfa

\* where minimize_dfa returns to
Returned(result) ==
  /\ minimized_dfa' = IF round = 1 THEN result ELSE minimized_dfa
  /\ reminimized_dfa' = IF round = 1 THEN reminimized_dfa ELSE result
  /\ pc' = IF round = 1 THEN "simulate" ELSE "reminimized"

\* minimize_dfa up to the loop; a DFA of at most one state is returned as is
MinimizeStart ==
  /\ pc = "minimize"
  /\ IF Cardinality(MinimizerInput.states) <= 1
     THEN /\ Returned(MinimizerInput)
          /\ UNCHANGED <<partitions, iteration>>
     ELSE /\ partitions' = InitialPartitions(MinimizerInput)
          /\ iteration' = 0
          /\ pc' = "refine"
          /\ UNCHANGED <<minimized_dfa, reminimized_dfa>>
  /\ UNCHANGED <<batch, regex, postfix, ast_root, heap, nfa, st, dfa, round,
                 cadena_w, resultado>>

\* one pass of "while changed"
RefinePass ==
  /\ pc = "refine"
  /\ LET r == RefinePassOf(MinimizerInput, partitions)
     IN /\ partitions' = r.partitions
        /\ iteration' = iteration + 1
        /\ pc' = IF r.changed THEN "refine" ELSE "build"
  /\ UNCHANGED <<batch, regex, postfix, ast_root, heap, nfa, st, dfa, round,
                 minimized_dfa, reminimized_dfa, cadena_w, resultado>>

\* mutant: the minimized automaton is built in place of the DFA it was
\* computed from
BuildMinimizedDfa_inplace ==
  /\ pc = "build"
  /\ \E rep \in Representatives(partitions) :
       /\ Returned(_build_minimized_dfa(MinimizerInput, partitions, rep))
       /\ dfa' = _build_minimized_dfa(MinimizerInput, partitions, rep)
  /\ UNCHANGED <<batch, regex, postfix, ast_root, heap, nfa, st, round,
                 partitions, iteration, cadena_w, resultado>>

\* _build_minimized_dfa with whichever representative iteration yields
BuildMinimizedDfa ==
  /\ pc = "build"
  /\ \E rep \in Representatives(partitions) :
       Returned(_build_minimized_dfa(MinimizerInput, partitions, rep))
  /\ UNCHANGED <<batch, regex, postfix, ast_root, heap, nfa, st, dfa, round,
                 partitions, iteration, cadena_w, resultado>>

\* the three simulations of cadena_w
Simulate ==
  /\ pc = "simulate"
  /\ \E w \in Words :
       /\ cadena_w' = w
       /\ resultado' = [nfa |-> nfa_simulate(heap, nfa, w),
                        dfa |-> dfa_simulate(dfa, w),
                        min |-> dfa_simulate(minimized_dfa, w)]
  /\ pc' = "done"
  /\ UNCHANGED <<batch, regex, postfix, ast_root, heap, nfa, st, dfa, round,
                 partitions, iteration, minimized_dfa, reminimized_dfa>>

\* minimize_dfa applied to its own result
MinimizeAgain ==
  /\ pc = "simulate"
  /\ round = 1
  /\ round' = 2
  /\ pc' = "minimize"
  /\ UNCHANGED <<batch, regex, postfix, ast_root, heap, nfa, st, dfa, partitions,
                 iteration, minimized_dfa, reminimized_dfa, cadena_w,
                 resultado>>

Next ==
  \/ InfixToPostfix
  \/ BuildAst
  \/ ConstructNfa
  \/ ConstructDfaStart
  \/ ConstructDfaIteration
  \/ ConstructDfaFinish
  \/ MinimizeStart
  \/ RefinePass
  \/ BuildMinimizedDfa
  \/ Simulate
  \/ MinimizeAgain

Spec == Init /\ [][Next]_vars

(***************************************************************************)
(* The loop of procesar_expresiones_con_cadenas over a list of several     *)
(* expressions.  The objects of the five stages are created once, before   *)
(* the loop; an iteration leaves its local variables behind for the next.  *)
(***************************************************************************)
MaxBatch == 2

BatchRegexes ==
  { <<"a", "|", "b">>, <<"a", "b", "*">>, <<"*">>, <<"?", "#">>,
    <<"(", "a", "|", "b", ")", "*", "a", "b", "b">> }

Batches == SeqsUpTo(BatchRegexes, MaxBatch) \ {<< >>}

InitBatch ==
  /\ expresiones \in Batches
  /\ idx = 1
  /\ exitosas = 0
  /\ regex = expresiones[1]
  /\ pc = "postfix"
  /\ postfix = << >>
  /\ ast_root = NoNode
  /\ heap = EmptyHeap
  /\ nfa = EmptyNfa
  /\ st = NoSt
  /\ dfa = EmptyDfa
  /\ round = 1
  /\ partitions = << >>
  /\ iteration = 0
  /\ minimized_dfa = EmptyDfa
  /\ reminimized_dfa = EmptyDfa
  /\ cadena_w = << >>
  /\ resultado = NoResult

\* the head of "for i, (regex, cadena_w) in enumerate(...)": the next
\* expression, or the summary after the last one
LoopHead ==
  /\ idx' = idx + 1
  /\ IF idx < Len(expresiones)
     THEN regex' = expresiones[idx + 1] /\ pc' = "postfix"
     ELSE regex' = regex /\ pc' = "resumen"
  /\ UNCHANGED <<expresiones, postfix, ast_root, heap, nfa, st, dfa, round,
                 partitions, iteration, minimized_dfa, reminimized_dfa,
                 cadena_w, resultado>>

\* mutant: the try statement encloses the loop, an error ends the batch
ExpressionFailed_aborts ==
  /\ pc = "error"
  /\ pc' = "resumen"
  /\ UNCHANGED <<exitosas, idx, regex, expresiones, postfix, ast_root, heap,
                 nfa, st, dfa, round, partitions, iteration, minimized_dfa,
                 reminimized_dfa, cadena_w, resultado>>

\* except Exception as e: print(...); then the next iteration
ExpressionFailed ==
  /\ pc = "error"
  /\ UNCHANGED exitosas
  /\ LoopHead

\* the end of the try body: exitosas += 1; then the next iteration
ExpressionDone ==
  /\ pc = "done"
  /\ exitosas' = exitosas + 1
  /\ LoopHead

NextBatch ==
  \/ Next
  \/ ExpressionFailed
  \/ ExpressionDone

BatchSpec == InitBatch /\ [][NextBatch]_vars

(***************************************************************************)
(* The compilation regex -> NFA as one function, for statements that       *)
(* relate the automata of two expressions.                                 *)
(***************************************************************************)
Compile(r) ==
  LET a == build_ast(infix_to_postfix(r))
  IN IF a.ok THEN construct_nfa(a.stack[1])
     ELSE [ok |-> FALSE, H |-> EmptyHeap, nfa |-> EmptyNfa]

\* The strings of Words accepted by the NFA of r; {<<"error">>} if r fails
LangOf(r) ==
  LET c == Compile(r)
  IN IF c.ok THEN {w \in Words : nfa_simulate(c.H, c.nfa, w)}
     ELSE {<<"error">>}

\* the same for the expression being processed, once ConstructNfa has run
LangOfState ==
  IF pc = "error" THEN {<<"error">>}
  ELSE {w \in Words : nfa_simulate(heap, nfa, w)}

NfaBuilt ==
  pc \in {"dfa", "dfa_loop", "minimize", "refine", "build", "simulate",
          "done", "reminimized"}

(***************************************************************************)
(* C1: for every regex that compiles and every input string, the NFA, the  *)
(* DFA of the subset construction and the minimized DFA return the same    *)
(* verdict.                                                                *)
(***************************************************************************)
C1_SimulatorsAgree ==
  pc = "done" => /\ resultado.nfa = resultado.dfa
                 /\ resultado.dfa = resultado.min

\* an accepted string, a rejected string with a symbol outside the alphabet
\* would be another; here the minimizer has merged states and w is accepted
C1_Witness ==
  /\ pc = "done"
  /\ resultado.nfa
  /\ cadena_w # << >>
  /\ Cardinality(minimized_dfa.states) < Cardinality(dfa.states)
  /\ Cardinality(minimized_dfa.states) > 1

(***************************************************************************)
(* C2: for a well-formed AST over alphanumeric / epsilon leaves, '.', '|'  *)
(* and '*', the Thompson NFA accepts w exactly when w is in the language   *)
(* the AST denotes under the standard semantics.                           *)
(***************************************************************************)
RECURSIVE WellFormedAst(_)
WellFormedAst(node) ==
  IF node.kids = << >>
  THEN Len(node.value) = 1 /\ IsAlnum(node.value[1])
  ELSE IF node.value \in {<<".">>, <<"|">>}
  THEN Len(node.kids) = 2 /\ WellFormedAst(node.kids[1])
       /\ WellFormedAst(node.kids[2])
  ELSE node.value = <<"*">> /\ Len(node.kids) = 1
       /\ WellFormedAst(node.kids[1])

\* the standard semantics of regular expressions
RECURSIVE Denotes(_, _)
Denotes(node, w) ==
  IF node.kids = << >>
  THEN IF node.value = <<"eps">> THEN w = << >> ELSE w = node.value
  ELSE IF node.value = <<".">>
  THEN \E i \in 0..Len(w) : /\ Denotes(node.kids[1], Slice(w, 1, i))
                            /\ Denotes(node.kids[2], Slice(w, i + 1, Len(w)))
  ELSE IF node.value = <<"|">>
  THEN Denotes(node.kids[1], w) \/ Denotes(node.kids[2], w)
  ELSE \/ w = << >>
       \/ \E i \in 1..Len(w) : /\ Denotes(node.kids[1], Slice(w, 1, i))
                               /\ Denotes(node, Slice(w, i + 1, Len(w)))

C2_NfaAcceptsDenotedLanguage ==
  (pc = "done" /\ WellFormedAst(ast_root))
    => resultado.nfa = Denotes(ast_root, cadena_w)

\* a star over a union inside a concatenation, on a string it accepts
C2_Witness ==
  /\ pc = "done"
  /\ WellFormedAst(ast_root)
  /\ ast_root.value = <<".">>
  /\ ast_root.kids[1].value = <<"*">>
  /\ Len(cadena_w) >= 2
  /\ resultado.nfa

(***************************************************************************)
(* C3: the end-to-end verdict table of the five scenarios holds on the     *)
(* NFA, the DFA and the minimized DFA.                                     *)
(***************************************************************************)
ReAorB == <<"a", "|", "b">>
ReAbb == <<"(", "a", "|", "b", ")", "*", "a", "b", "b">>
ReAStar == <<"a", "*">>
RePlus == <<"(", "a", "|", "b", ")", "+">>
ReOpt == <<"0", "?", "(", "1", "?", ")", "?", "0", "*">>

VerdictTable ==
  { <<ReAorB, << >>, FALSE>>, <<ReAorB, <<"a", "b">>, FALSE>>,
    <<ReAorB, <<"a">>, TRUE>>, <<ReAorB, <<"b">>, TRUE>>,
    <<ReAbb, <<"a", "b", "b">>, TRUE>>, <<ReAbb, <<"a", "a", "b", "b">>, TRUE>>,
    <<ReAbb, <<"b", "a", "b", "b">>, TRUE>>, <<ReAbb, <<"a", "b">>, FALSE>>,
    <<ReAbb, << >>, FALSE>>,
    <<ReAStar, << >>, TRUE>>, <<ReAStar, <<"a", "a", "a", "a">>, TRUE>>,
    <<ReAStar, <<"a", "b">>, FALSE>>,
    <<RePlus, << >>, FALSE>>, <<RePlus, <<"a">>, TRUE>>,
    <<RePlus, <<"a", "b", "b", "a">>, TRUE>>,
    <<ReOpt, << >>, TRUE>>, <<ReOpt, <<"0">>, TRUE>>,
    <<ReOpt, <<"1", "0">>, TRUE>>, <<ReOpt, <<"0", "1", "0">>, TRUE>>,
    <<ReOpt, <<"1", "1">>, FALSE>> }

C3_VerdictTable ==
  \A e \in VerdictTable :
    (pc = "done" /\ regex = e[1] /\ cadena_w = e[2])
      => /\ resultado.nfa = e[3]
         /\ resultado.dfa = e[3]
         /\ resultado.min = e[3]

C3_Witness ==
  /\ pc = "done"
  /\ regex = RePlus
  /\ cadena_w = <<"a", "b", "b", "a">>
  /\ resultado.nfa /\ resultado.dfa /\ resultado.min

(***************************************************************************)
(* C4: an escaped metacharacter is matched as itself: the regex \c accepts *)
(* exactly the one-character string c, and \(a\) compiles, accepts "(a)"   *)
(* and rejects every other string, on all three automata.                  *)
(***************************************************************************)
ReEscParens == <<"\\", "(", "a", "\\", ")">>

\* the regex compiles, and its three verdicts on cadena_w are "w = only"
AcceptsExactly(only) ==
  /\ pc # "error"
  /\ pc = "done" => /\ resultado.nfa = (cadena_w = only)
                    /\ resultado.dfa = (cadena_w = only)
                    /\ resultado.min = (cadena_w = only)

C4_EscapedMetacharIsLiteral ==
  /\ (Len(regex) = 2 /\ regex[1] = "\\" /\ regex[2] \in escaped_chars)
       => AcceptsExactly(<<regex[2]>>)
  /\ regex = ReEscParens => AcceptsExactly(<<"(", "a", ")">>)

(***************************************************************************)
(* C5: '+' applies to the operand X immediately to its left only (a single *)
(* token or a balanced parenthesized group): the language compiled from    *)
(* pX+s is the language compiled from pX(X)*s.                             *)
(***************************************************************************)
\* parentheses of s are balanced: depth never negative, zero at the end
RECURSIVE DepthOk(_, _, _)
DepthOk(s, i, depth) ==
  IF depth < 0 THEN FALSE
  ELSE IF i > Len(s) THEN depth = 0
  ELSE DepthOk(s, i + 1, IF s[i] = "(" THEN depth + 1
                         ELSE IF s[i] = ")" THEN depth - 1 ELSE depth)

Balanced(s) == DepthOk(s, 1, 0)

\* positions j..i of r hold the operand X that ends at position i
IsLeftOperand(r, j, i) ==
  \/ j = i /\ r[i] \in {"a", "b", "0", "1"}
  \/ /\ j < i /\ r[j] = "(" /\ r[i] = ")"
     /\ Balanced(Slice(r, j, i))
     /\ \A k \in (j + 1)..(i - 1) : ~Balanced(Slice(r, j, k))

\* r with its positions j..i+1 (the operand X and the operator) replaced
Desugared(r, j, i, replacement) ==
  Slice(r, 1, j - 1) \o replacement \o Slice(r, i + 2, Len(r))

C5_PlusRepeatsLeftOperandOnly ==
  (pc \in {"dfa", "error"} /\ Balanced(regex))
    => \A i \in 1..(Len(regex) - 1) : \A j \in 1..i :
         (regex[i + 1] = "+" /\ IsLeftOperand(regex, j, i))
           => LET X == Slice(regex, j, i)
              IN LangOfState
                   = LangOf(Desugared(regex, j, i,
                                      X \o <<"(">> \o X \o <<")", "*">>))

(***************************************************************************)
(* C6: '?' applies to the operand X immediately to its left only (a single *)
(* token or a balanced parenthesized group): the language compiled from    *)
(* pX?s is the language compiled from p(X|eps)s.                           *)
(***************************************************************************)
C6_QuestionMakesLeftOperandOptionalOnly ==
  (pc \in {"dfa", "error"} /\ Balanced(regex))
    => \A i \in 1..(Len(regex) - 1) : \A j \in 1..i :
         (regex[i + 1] = "?" /\ IsLeftOperand(regex, j, i))
           => LET X == Slice(regex, j, i)
              IN LangOfState
                   = LangOf(Desugared(regex, j, i,
                                      <<"(">> \o X \o <<"|", "eps", ")">>))

(***************************************************************************)
(* C7: the minimized DFA has no more states than the DFA it was computed    *)
(* from, and minimizing the minimized DFA again leaves the number of       *)
(* states unchanged.                                                       *)
(***************************************************************************)
C7_MinimizeShrinksAndIsIdempotent ==
  /\ pc = "simulate"
       => Cardinality(minimized_dfa.states) <= Cardinality(dfa.states)
  /\ pc = "reminimized"
       => Cardinality(reminimized_dfa.states)
            = Cardinality(minimized_dfa.states)

\* both minimizations ran their refinement loop, and the first merged states
C7_Witness ==
  /\ pc = "reminimized"
  /\ Cardinality(minimized_dfa.states) < Cardinality(dfa.states)
  /\ Cardinality(minimized_dfa.states) > 2

(***************************************************************************)
(* C8: the minimized DFA is minimal: all its states are reachable from the *)
(* start state and any two distinct states are told apart by some string   *)
(* (a missing transition rejects).                                         *)
(***************************************************************************)
\* acceptance of w started in state q
StateAccepts(d, q, w) == DfaRun(d, q, w, 1)

\* strings up to length |states| tell apart any two inequivalent states of
\* the automaton completed with a reject state
Distinguished(d, p, q) ==
  \E w \in SeqsUpTo(d.alphabet, Cardinality(d.states)) :
    StateAccepts(d, p, w) # StateAccepts(d, q, w)

C8_MinimizedDfaIsMinimal ==
  pc = "simulate"
    => /\ minimized_dfa.states = CollectDfa(minimized_dfa.D,
                                           {minimized_dfa.start_state})
       /\ \A p, q \in minimized_dfa.states :
            p # q => Distinguished(minimized_dfa, p, q)

\* a minimized DFA of several states obtained by merging states
C8_Witness ==
  /\ pc = "simulate"
  /\ Cardinality(minimized_dfa.states) >= 3
  /\ Cardinality(minimized_dfa.states) < Cardinality(dfa.states)

(***************************************************************************)
(* C9: an expression with unbalanced parentheses (a ')' without a matching *)
(* '(' before it, or a '(' that is never closed) ends in an error: no      *)
(* automaton is produced for it.                                           *)
(***************************************************************************)
\* every parenthesis of r is a grouping parenthesis: r has no escape and no
\* "L" that would turn the next character into a literal
PlainParens(r) == ~Contains(r, "\\") /\ ~Contains(r, "L")

C9_UnbalancedParenthesesRejected ==
  (PlainParens(regex) /\ ~Balanced(regex)) => ~NfaBuilt

(***************************************************************************)
(* C10: an expression containing a character that is neither an operator   *)
(* nor an accepted operand (here '#') ends in an error: neither a postfix  *)
(* string nor an automaton is produced for it.                             *)
(***************************************************************************)
HasUnsupportedToken(r) == Contains(r, "#")

C10_UnsupportedTokenRejected ==
  HasUnsupportedToken(regex) => pc \in {"postfix", "error"}

(***************************************************************************)
(* C11: a '+' or '?' with no operand before it (first character of the     *)
(* expression, or preceded only by spaces) makes the compilation of the    *)
(* expression fail: no automaton is returned for it.                       *)
(***************************************************************************)
OperatorWithoutOperand(r) ==
  LET first == SkipSpacesFwd(r, 1)
  IN first <= Len(r) /\ r[first] \in {"+", "?"}

C11_OperatorWithoutOperandRejected ==
  OperatorWithoutOperand(regex) => ~NfaBuilt

(***************************************************************************)
(* C12: build_ast raises an error exactly when the postfix string is not a *)
(* well-formed postfix expression (a binary operator read with fewer than  *)
(* two nodes on the stack, a unary operator read with an empty stack, or a *)
(* stack that does not hold exactly one node after the last token, the     *)
(* empty postfix string included); for a well-formed postfix string it     *)
(* returns the single node, the tree whose post-order is that string.      *)
(***************************************************************************)
\* the number of nodes an evaluation of p[i..] leaves on a stack of depth d
\* is exactly one, and no operator is read with too few nodes
RECURSIVE WellFormedFrom(_, _, _)
WellFormedFrom(p, i, d) ==
  IF i > Len(p) THEN d = 1
  ELSE IF p[i] = "L" /\ i + 1 <= Len(p) THEN WellFormedFrom(p, i + 2, d + 1)
  ELSE IF p[i] \in {"|", "."} THEN d >= 2 /\ WellFormedFrom(p, i + 1, d - 1)
  ELSE IF p[i] \in {"*", "?"} THEN d >= 1 /\ WellFormedFrom(p, i + 1, d)
  ELSE WellFormedFrom(p, i + 1, d + 1)

WithoutSpaces(p) == SelectSeq(p, LAMBDA ch : ch # " ")

WellFormedPostfix(p) == WellFormedFrom(WithoutSpaces(p), 1, 0)

\* the post-order listing of a tree
RECURSIVE PostOrder(_)
PostOrder(node) ==
  IF node.kids = << >> THEN node.value
  ELSE IF Len(node.kids) = 1 THEN PostOrder(node.kids[1]) \o node.value
  ELSE PostOrder(node.kids[1]) \o PostOrder(node.kids[2]) \o node.value

\* build_ast has run: it returned a tree (pc = "nfa") or raised (pc = "error"
\* with no tree stored)
C12_BuildAstFailsExactlyOnMalformedPostfix ==
  /\ pc = "nfa" => /\ WellFormedPostfix(postfix)
                   /\ PostOrder(ast_root) = WithoutSpaces(postfix)
  /\ (pc = "error" /\ ast_root = NoNode) => ~WellFormedPostfix(postfix)

\* a tree with binary nodes over a unary node has been returned
C12_Witness ==
  /\ pc = "nfa"
  /\ Len(postfix) >= 5
  /\ ast_root.value = <<".">>
  /\ ast_root.kids[1].value = <<".">>
  /\ ast_root.kids[1].kids[2].value = <<"*">>

(***************************************************************************)
(* The whole of minimize_dfa as a function, with the member of least id as *)
(* the representative of each class (what iterating a set of DFAState      *)
(* yields first for the ids of this model).                                *)
(***************************************************************************)
RECURSIVE RefineLoop(_, _)
RefineLoop(d, parts) ==
  LET r == RefinePassOf(d, parts)
  IN IF r.changed THEN RefineLoop(d, r.partitions) ELSE r.partitions

LeastRepresentative(parts) ==
  [k \in 1..Len(parts) |-> CHOOSE x \in parts[k] : \A y \in parts[k] : x <= y]

minimize_dfa(d) ==
  IF Cardinality(d.states) <= 1 THEN d
  ELSE LET parts == RefineLoop(d, InitialPartitions(d))
       IN _build_minimized_dfa(d, parts, LeastRepresentative(parts))

(***************************************************************************)
(* C13: in a batch, an error in expression i aborts only expression i:     *)
(* the later expressions are still processed, each with the verdicts it    *)
(* gets when compiled alone, and the success counter is the number of      *)
(* expressions that completed all stages (never more than the number of    *)
(* expressions).                                                           *)
(***************************************************************************)
\* r compiled alone: every stage after the NFA is total
Completes(r) == Compile(r).ok

\* the three verdicts of r compiled alone, on the string w
VerdictsAlone(r, w) ==
  LET c == Compile(r)
      d == construct_dfa(c.H, c.nfa)
  IN [nfa |-> nfa_simulate(c.H, c.nfa, w),
      dfa |-> dfa_simulate(d, w),
      min |-> dfa_simulate(minimize_dfa(d), w)]

C13_BatchErrorsAreIsolated ==
  /\ exitosas = Cardinality({j \in 1..(idx - 1) : Completes(expresiones[j])})
  /\ exitosas <= Len(expresiones)
  /\ pc = "resumen" => idx = Len(expresiones) + 1
  /\ pc # "resumen" => regex = expresiones[idx]
  /\ pc = "error" => ~Completes(regex)
  /\ pc = "done" => /\ Completes(regex)
                    /\ resultado = VerdictsAlone(regex, cadena_w)

\* the first expression failed, the second was processed and accepted its
\* string, and the summary counts one success
C13_Witness ==
  /\ pc = "resumen"
  /\ Len(expresiones) = 2
  /\ ~Completes(expresiones[1])
  /\ exitosas = 1
  /\ resultado.min /\ resultado.dfa /\ resultado.nfa
  /\ cadena_w # << >>

(***************************************************************************)
(* C14: every alphanumeric character denotes itself: a regex that is a     *)
(* non-empty string u of alphanumeric characters (the letters 'L' and 'n'  *)
(* included) compiles, and its automata accept the string u and no other.  *)
(***************************************************************************)
AsciiAlnum == {"0", "1", "a", "b", "L", "n"}

C14_AlphanumericsDenoteThemselves ==
  (\A k \in 1..Len(regex) : regex[k] \in AsciiAlnum) => AcceptsExactly(regex)

(***************************************************************************)
(* C15: whitespace is ignored: a regex and the regex obtained by deleting  *)
(* a space between two of its tokens either both fail or compile to        *)
(* automata with the same language.                                        *)
(***************************************************************************)
\* r without its k-th character
RemoveAt(r, k) == Slice(r, 1, k - 1) \o Slice(r, k + 1, Len(r))

\* position k of r holds a space that is not the character of an escape
SpaceBetweenTokens(r, k) ==
  r[k] = " " /\ (k > 1 => r[k - 1] # "\\")

C15_WhitespaceIsIgnored ==
  pc \in {"dfa", "error"}
    => \A k \in 1..Len(regex) :
         SpaceBetweenTokens(regex, k) => LangOfState = LangOf(RemoveAt(regex, k))

(***************************************************************************)
(* C16: epsilon neutrality: for every regex r that compiles, the regexes   *)
(* r eps and eps r compile too, and their automata accept the same strings *)
(* as the automata of r.                                                   *)
(***************************************************************************)
C16_EpsilonIsNeutral ==
  pc = "dfa" => /\ LangOf(regex \o <<"eps">>) = LangOfState
                /\ LangOf(<<"eps">> \o regex) = LangOfState

(***************************************************************************)
(* C17: compilation is deterministic: whatever the run (constructor        *)
(* objects fresh or left over from the previous expression, whichever      *)
(* representative the minimizer takes), the NFA and the subset-construction*)
(* DFA of a regex are the same, state ids included, and the minimized DFA  *)
(* is the same up to a renaming of its states and accepts the same strings.*)
(***************************************************************************)
\* the transitions between the states of a DFA
TransitionsOf(d) == {t \in d.D.trans : t[1] \in d.states}

\* d1 and d2 are equal up to a renaming f of the state ids
Isomorphic(d1, d2) ==
  /\ Cardinality(d1.states) = Cardinality(d2.states)
  /\ d1.alphabet = d2.alphabet
  /\ \E f \in [d1.states -> d2.states] :
       /\ \A p, q \in d1.states : f[p] = f[q] => p = q
       /\ f[d1.start_state] = d2.start_state
       /\ {f[q] : q \in d1.final_states} = d2.final_states
       /\ {<<f[t[1]], t[2], f[t[3]]>> : t \in TransitionsOf(d1)}
            = TransitionsOf(d2)

C17_CompilationIsDeterministic ==
  /\ pc \in {"dfa", "dfa_loop", "minimize", "refine", "build", "simulate",
             "done"}
       => LET c == Compile(regex) IN c.ok /\ heap = c.H /\ nfa = c.nfa
  /\ pc \in {"minimize", "refine", "build", "simulate", "done"}
       => dfa = construct_dfa(heap, nfa)
  /\ pc \in {"simulate", "done"}
       => LET m == minimize_dfa(dfa)
          IN /\ Isomorphic(minimized_dfa, m)
             /\ \A w \in Words :
                  dfa_simulate(minimized_dfa, w) = dfa_simulate(m, w)

\* the second compilation of the same expression in one batch, with a
\* minimized DFA that merges states
C17_Witness ==
  /\ pc = "simulate"
  /\ idx = 2
  /\ expresiones[1] = expresiones[2]
  /\ Cardinality(minimized_dfa.states) < Cardinality(dfa.states)
  /\ Cardinality(minimized_dfa.states) >= 4

(***************************************************************************)
(* C18: for a well-formed regex over alphanumeric operands, eps, '|', '*'  *)
(* and parentheses, infix_to_postfix followed by build_ast yields the      *)
(* parse tree in which '*' binds tighter than concatenation, concatenation *)
(* tighter than '|', both binary operators associate to the left and       *)
(* parentheses override precedence.                                        *)
(***************************************************************************)
RegexOperands == {"0", "1", "a", "b", "L", "n", "eps"}

\* position k of s is outside every pair of parentheses
TopLevel(s, k) == Balanced(Slice(s, 1, k - 1))

TopLevelBars(s) == {k \in 1..Len(s) : s[k] = "|" /\ TopLevel(s, k)}

Maximum(S) == CHOOSE x \in S : \A y \in S : y <= x

\* the last position of s that does not hold a '*' (0 if there is none)
RECURSIVE SkipStarsBack(_, _)
SkipStarsBack(s, k) ==
  IF k >= 1 /\ s[k] = "*" THEN SkipStarsBack(s, k - 1) ELSE k

\* where the last factor (an operand or a group, with its stars) of s begins
LastFactorStart(s) ==
  LET e == SkipStarsBack(s, Len(s))
  IN IF e >= 1 /\ s[e] = ")"
        /\ \E j \in 1..e : s[j] = "(" /\ Balanced(Slice(s, j, e))
     THEN Maximum({j \in 1..e : s[j] = "(" /\ Balanced(Slice(s, j, e))})
     ELSE e

\* s is a regex of the grammar  U ::= C | U '|' C,  C ::= F | C F,
\* F ::= A | F '*',  A ::= operand | '(' U ')'
RECURSIVE WellFormedRegex(_)
WellFormedRegex(s) ==
  /\ Len(s) >= 1
  /\ Balanced(s)
  /\ IF TopLevelBars(s) # {}
     THEN LET k == Maximum(TopLevelBars(s))
          IN /\ WellFormedRegex(Slice(s, 1, k - 1))
             /\ WellFormedRegex(Slice(s, k + 1, Len(s)))
     ELSE LET j == LastFactorStart(s)
          IN IF j > 1
             THEN /\ WellFormedRegex(Slice(s, 1, j - 1))
                  /\ WellFormedRegex(Slice(s, j, Len(s)))
             ELSE IF j < 1 THEN FALSE
             ELSE IF s[Len(s)] = "*"
             THEN WellFormedRegex(Slice(s, 1, Len(s) - 1))
             ELSE IF s[1] = "(" /\ s[Len(s)] = ")"
             THEN WellFormedRegex(Slice(s, 2, Len(s) - 1))
             ELSE Len(s) = 1 /\ s[1] \in RegexOperands

\* the parse tree of a well-formed regex
RECURSIVE ParseTree(_)
ParseTree(s) ==
  IF TopLevelBars(s) # {}
  THEN LET k == Maximum(TopLevelBars(s))
       IN ASTNode(<<"|">>, <<ParseTree(Slice(s, 1, k - 1)),
                             ParseTree(Slice(s, k + 1, Len(s)))>>)
  ELSE LET j == LastFactorStart(s)
       IN IF j > 1
          THEN ASTNode(<<".">>, <<ParseTree(Slice(s, 1, j - 1)),
                                  ParseTree(Slice(s, j, Len(s)))>>)
          ELSE IF s[Len(s)] = "*"
          THEN ASTNode(<<"*">>, <<ParseTree(Slice(s, 1, Len(s) - 1))>>)
          ELSE IF s[1] = "("
          THEN ParseTree(Slice(s, 2, Len(s) - 1))
          ELSE ASTNode(s, << >>)

C18_PrecedenceAndAssociativity ==
  WellFormedRegex(regex)
    => /\ pc # "error"
       /\ pc = "nfa" => ast_root = ParseTree(regex)

(***************************************************************************)
(* C19: the string returned by infix_to_postfix is a sequence over operand *)
(* tokens, '.', '|' and '*' only: whatever the input expression, none of   *)
(* its tokens is '+', '?', '(' or ')'.                                     *)
(***************************************************************************)
\* the tokens of a postfix string from position i on: "L" and the character
\* after it are one operand token
RECURSIVE PostfixTokens(_, _)
PostfixTokens(p, i) ==
  IF i > Len(p) THEN {}
  ELSE IF p[i] = "L" /\ i + 1 <= Len(p)
  THEN {<<p[i], p[i + 1]>>} \cup PostfixTokens(p, i + 2)
  ELSE {<<p[i]>>} \cup PostfixTokens(p, i + 1)

C19_PostfixHasNoSugarNorParentheses ==
  pc = "ast"
    => PostfixTokens(postfix, 1) \cap {<<"+">>, <<"?">>, <<"(">>, <<")">>} = {}

(***************************************************************************)
(* C20: every NFA returned by construct_nfa, and every intermediate NFA    *)
(* returned by the basic, concatenation, union and star constructions, has *)
(* exactly one accept state: final_states has length 1, that state is the  *)
(* only state of nfa.states flagged is_final, every state of nfa.states    *)
(* (the accept state included) is reachable from the start state, and      *)
(* nfa.alphabet is the set of symbols on the symbol transitions and never  *)
(* contains eps.                                                           *)
(***************************************************************************)
\* the structure of an NFA n over the heap H as it is when n is returned
OneAcceptReachable(H, n) ==
  /\ Len(n.final_states) = 1
  /\ {q \in n.states : q \in H.fin} = {n.final_states[1]}
  /\ n.states = CollectNfa(H, {n.start_state})
  /\ n.alphabet = {t[2] : t \in {u \in H.trans : u[1] \in n.states}}

ThompsonInvariant(H, n) == OneAcceptReachable(H, n) /\ "eps" \notin n.alphabet

\* _build_nfa_recursive with the invariant evaluated at every return:
\* [ok, H, nfa, shape, alpha] where shape and alpha hold if every NFA
\* returned so far satisfied OneAcceptReachable, and had no eps in alphabet
RECURSIVE BuildChecked(_, _)
BuildChecked(H, node) ==
  LET Result(c, shape, alpha) ==
        [ok |-> TRUE, H |-> c.H, nfa |-> c.nfa,
         shape |-> shape /\ OneAcceptReachable(c.H, c.nfa),
         alpha |-> alpha /\ "eps" \notin c.nfa.alphabet]
  IN IF node.kids = << >>
     THEN Result(_construct_basic(H, node.value), TRUE, TRUE)
     ELSE IF node.value \in {<<".">>, <<"|">>}
     THEN LET l == BuildChecked(H, node.kids[1])
          IN IF ~l.ok THEN l
             ELSE LET r == BuildChecked(l.H, node.kids[2])
                  IN IF ~r.ok THEN r
                     ELSE Result(IF node.value = <<".">>
                                 THEN _construct_concatenation(r.H, l.nfa, r.nfa)
                                 ELSE _construct_union(r.H, l.nfa, r.nfa),
                                 l.shape /\ r.shape, l.alpha /\ r.alpha)
     ELSE IF node.value = <<"*">>
     THEN LET ch == BuildChecked(H, node.kids[1])
          IN IF ~ch.ok THEN ch
             ELSE Result(_construct_kleene_star(ch.H, ch.nfa),
                         ch.shape, ch.alpha)
     ELSE [ok |-> FALSE, H |-> H, nfa |-> EmptyNfa, shape |-> TRUE,
           alpha |-> TRUE]

C20_ThompsonNfaInvariant ==
  pc = "dfa" => /\ ThompsonInvariant(heap, nfa)
                /\ LET b == BuildChecked(EmptyHeap, ast_root)
                   IN b.shape /\ b.alpha

(***************************************************************************)
(* C21: in the DFA returned by construct_dfa the start state represents    *)
(* the ε-closure of the NFA start state, a state is accepting exactly when *)
(* its set holds an NFA accept state, a state has a transition on a symbol *)
(* exactly when some NFA state of its set has one, and the target then     *)
(* represents the ε-closure of the union of those targets; no state        *)
(* represents the empty set.                                               *)
(***************************************************************************)
\* the set of NFA states a DFA state represents
SubsetOf(d, q) == d.D.nfa_states[q + 1]

\* the DFA of the current expression has been returned by construct_dfa
DfaBuilt ==
  pc \in {"minimize", "refine", "build", "simulate", "reminimized", "done"}

\* every symbol on a transition of the NFA or of the DFA
SymbolsOf(H, d) == {t[2] : t \in H.trans} \cup {t[2] : t \in d.D.trans}

C21_SubsetConstructionIsCorrect ==
  DfaBuilt =>
    /\ SubsetOf(dfa, dfa.start_state)
         = get_epsilon_closure(heap, {nfa.start_state})
    /\ \A q \in dfa.states :
         LET accepting == SubsetOf(dfa, q) \cap SeqRange(nfa.final_states) # {}
         IN /\ SubsetOf(dfa, q) # {}
            /\ (q \in dfa.final_states) <=> accepting
            /\ (q \in dfa.D.is_final) <=> accepting
            /\ \A a \in SymbolsOf(heap, dfa) :
                 LET moved == Move(heap, SubsetOf(dfa, q), a)
                 IN /\ HasTransition(dfa.D, q, a) <=> moved # {}
                    /\ Cardinality({t \in dfa.D.trans :
                                      t[1] = q /\ t[2] = a}) <= 1
                    /\ moved # {}
                         => SubsetOf(dfa, Target(dfa.D, q, a))
                              = get_epsilon_closure(heap, moved)

\* a DFA with an accepting and a non-accepting state, a transition whose
\* target unites the targets of two NFA states and closes them under ε, and
\* a state without transition on a symbol of the alphabet
C21_Witness ==
  /\ pc = "minimize"
  /\ round = 1
  /\ dfa.final_states # {}
  /\ dfa.states \ dfa.final_states # {}
  /\ \E q \in dfa.states : \E a \in dfa.alphabet :
       LET moved == Move(heap, SubsetOf(dfa, q), a)
       IN /\ Cardinality(moved) >= 2
          /\ get_epsilon_closure(heap, moved) # moved
  /\ \E q \in dfa.states : \E a \in dfa.alphabet :
       ~HasTransition(dfa.D, q, a)

(***************************************************************************)
(* C22: throughout subset construction the memo is injective: two distinct *)
(* DFA states never represent the same set of NFA states, every set is     *)
(* ε-closed, the memo key of a state is the sorted tuple of the ids of     *)
(* exactly its set, and the DFA returned has as many states as there are   *)
(* reachable ε-closed subsets.                                             *)
(***************************************************************************)
\* a strictly increasing tuple
StrictlySorted(key) ==
  \A i, j \in 1..Len(key) : i < j => key[i] < key[j]

\* the non-empty subsets reached from the ε-closure of the start state by
\* moves on the symbols of the NFA followed by ε-closure
RECURSIVE ReachableSubsets(_, _)
ReachableSubsets(H, found) ==
  LET more == {get_epsilon_closure(H, Move(H, S, a)) :
                 <<S, a>> \in {p \in found \X {t[2] : t \in H.trans} :
                                 Move(H, p[1], p[2]) # {}}}
  IN IF more \subseteq found THEN found
     ELSE ReachableSubsets(H, found \cup more)

C22_MemoIsInjective ==
  /\ pc = "dfa_loop" =>
       LET memo == st.sc.memo
           D == st.sc.D
       IN /\ \A m1, m2 \in memo :
               (m1[1] = m2[1] \/ m1[2] = m2[2]) => m1 = m2
          /\ {m[2] : m \in memo} = 0..(D.n - 1)
          /\ Len(D.nfa_states) = D.n
          /\ \A m \in memo :
               /\ StrictlySorted(m[1])
               /\ SeqRange(m[1]) = D.nfa_states[m[2] + 1]
               /\ get_epsilon_closure(heap, D.nfa_states[m[2] + 1])
                    = D.nfa_states[m[2] + 1]
          /\ \A p, q \in 0..(D.n - 1) :
               p # q => D.nfa_states[p + 1] # D.nfa_states[q + 1]
  /\ (pc = "minimize" /\ round = 1) =>
       /\ dfa.states = 0..(st.sc.D.n - 1)
       /\ Cardinality(dfa.states)
            = Cardinality(ReachableSubsets(heap,
                {get_epsilon_closure(heap, {nfa.start_state})}))

\* the worklist is not yet empty, a request has hit the memo (a transition
\* leads to a state created earlier) and some set has several NFA states
C22_Witness ==
  /\ pc = "dfa_loop"
  /\ st.worklist # << >>
  /\ st.sc.D.n >= 3
  /\ \E t \in st.sc.D.trans : t[3] <= t[1]
  /\ \E m \in st.sc.memo : Len(m[1]) >= 3

(***************************************************************************)
(* C23: at the start of every pass of the refinement loop the list of      *)
(* classes is a partition of the states of the DFA being minimized, no     *)
(* class mixes accepting and non-accepting states, and a pass refines the  *)
(* partition: every new class lies within one old class, and two states of *)
(* an old class stay together exactly when, on every symbol, both lack a   *)
(* transition or both lead into the same old class.                        *)
(***************************************************************************)
IsPartitionOf(parts, S) ==
  /\ \A i \in 1..Len(parts) : parts[i] # {}
  /\ \A i, j \in 1..Len(parts) : i # j => parts[i] \cap parts[j] = {}
  /\ UNION SeqRange(parts) = S

\* p and q have the same signature with respect to the classes of parts
SameSignature(d, parts, p, q) ==
  \A a \in d.alphabet :
    IF HasTransition(d.D, p, a) /\ HasTransition(d.D, q, a)
    THEN \E i \in 1..Len(parts) :
           /\ Target(d.D, p, a) \in parts[i]
           /\ Target(d.D, q, a) \in parts[i]
    ELSE ~HasTransition(d.D, p, a) /\ ~HasTransition(d.D, q, a)

\* the classes held at the start of a pass
C23_ClassesArePartition ==
  pc = "refine" =>
    /\ IsPartitionOf(partitions, MinimizerInput.states)
    /\ \A i \in 1..Len(partitions) :
         \/ partitions[i] \subseteq MinimizerInput.final_states
         \/ partitions[i] \cap MinimizerInput.final_states = {}

\* the effect of one pass
C23_PassRefines ==
  pc = "refine" =>
    /\ \A j \in 1..Len(partitions') :
         \E i \in 1..Len(partitions) : partitions'[j] \subseteq partitions[i]
    /\ \A i \in 1..Len(partitions) : \A p, q \in partitions[i] :
         (\E j \in 1..Len(partitions') : {p, q} \subseteq partitions'[j])
           <=> SameSignature(MinimizerInput, partitions, p, q)
    /\ IsPartitionOf(partitions', MinimizerInput.states)

C23_RefinementKeepsPartition ==
  [](C23_ClassesArePartition) /\ [][C23_PassRefines]_vars

\* a pass starts from classes that an earlier pass has split, one of which
\* still holds several states
C23_Witness ==
  /\ pc = "refine"
  /\ Len(partitions) >= 3
  /\ \E i \in 1..Len(partitions) : Cardinality(partitions[i]) >= 2
  /\ RefinePassOf(MinimizerInput, partitions).changed

(***************************************************************************)
(* C24: every stage terminates: each iteration of the '+' and of the '?'   *)
(* desugaring loop removes one occurrence of its operator or leaves the    *)
(* loop, the worklist of the subset construction becomes empty, and the    *)
(* refinement loop reaches a pass without split after at most as many      *)
(* passes as the DFA has states.                                           *)
(***************************************************************************)
\* weak fairness of ConstructDfaIteration.  An iteration pops the worklist
\* and either marks a new key as processed or leaves the worklist shorter,
\* so it changes st and is enabled exactly when its guard holds.
WorklistFairness ==
  \/ []<>(~(pc = "dfa_loop" /\ st.worklist # << >>))
  \/ []<><<ConstructDfaIteration>>_vars

\* the loops as they run: the statement after the current one is eventually
\* executed (a loop iteration, or the exit when the loop condition fails)
FairSpec ==
  /\ Spec
  /\ WorklistFairness
  /\ WF_pc(pc = "dfa_loop" /\ st.worklist = << >> /\ pc' = "minimize")
  /\ WF_iteration(pc = "refine" /\ iteration' = iteration + 1)

\* result.count(c)
CountOf(s, c) == Cardinality({i \in 1..Len(s) : s[i] = c})

\* one test and body of "while '+' in result": [done, result]
plus_iteration(result) ==
  LET plus_pos == Find(result, "+")
      operand_end == SkipSpacesBack(result, plus_pos - 1)
  IN IF plus_pos = 0 \/ plus_pos = 1 \/ operand_end < 1
     THEN [done |-> TRUE, result |-> result]
     ELSE LET operand_start == PlusOperandStart(result, operand_end)
              operand == Slice(result, operand_start, operand_end)
              space_after_pos == SkipSpacesFwd(result, plus_pos + 1)
              transformation == operand \o <<"(">> \o operand \o <<")", "*">>
              before == Slice(result, 1, operand_start - 1)
              after == Slice(result, space_after_pos, Len(result))
          IN [done |-> FALSE, result |-> before \o transformation \o after]

\* one test and body of "while '?' in result": [done, result]
question_iteration(result) ==
  LET question_pos == RFind(result, "?")
      operand_end == SkipSpacesBack(result, question_pos - 1)
  IN IF question_pos = 0 \/ question_pos = 1 \/ operand_end < 1
     THEN [done |-> TRUE, result |-> result]
     ELSE LET operand_start == QuestionOperandStart(result, operand_end)
              operand == Slice(result, operand_start, operand_end)
              space_after_pos == SkipSpacesFwd(result, question_pos + 1)
              transformation == <<"(">> \o operand \o <<"|", "eps", ")">>
              before == Slice(result, 1, operand_start - 1)
              after == Slice(result, space_after_pos, Len(result))
          IN [done |-> FALSE, result |-> before \o transformation \o after]

\* the '+' loop started on result leaves within fuel iterations, each of
\* which removes one '+', and ends with the value of transform_plus_operator
RECURSIVE PlusLoopStops(_, _)
PlusLoopStops(result, fuel) ==
  LET it == plus_iteration(result)
  IN IF it.done THEN TRUE
     ELSE /\ fuel > 0
          /\ CountOf(it.result, "+") = CountOf(result, "+") - 1
          /\ transform_plus_operator(it.result)
               = transform_plus_operator(result)
          /\ PlusLoopStops(it.result, fuel - 1)

RECURSIVE QuestionLoopStops(_, _)
QuestionLoopStops(result, fuel) ==
  LET it == question_iteration(result)
  IN IF it.done THEN TRUE
     ELSE /\ fuel > 0
          /\ CountOf(it.result, "?") = CountOf(result, "?") - 1
          /\ QuestionLoop(it.result) = QuestionLoop(result)
          /\ QuestionLoopStops(it.result, fuel - 1)

\* both loops on the expression itself and on what the pipeline hands them
C24_DesugaringStops ==
  LET regex1 == normalize_unicode_chars(regex)
      regex2 == transform_plus_operator(regex1)
      start == Replace(regex2, SpecialCase, SpecialCaseRewritten)
  IN /\ PlusLoopStops(regex1, CountOf(regex1, "+"))
     /\ QuestionLoopStops(regex1, CountOf(regex1, "?"))
     /\ QuestionLoopStops(start, CountOf(start, "?"))

\* the number of passes made so far
C24_PassesAreBounded ==
  pc \in {"refine", "build"} =>
    /\ iteration <= Cardinality(MinimizerInput.states)
    /\ pc = "refine" => iteration < Cardinality(MinimizerInput.states)
    /\ pc = "build" => iteration >= 1

C24_EveryStageTerminates ==
  /\ [](C24_DesugaringStops /\ C24_PassesAreBounded)
  /\ (pc = "dfa_loop") ~> (pc = "minimize")
  /\ (pc = "refine") ~> (pc = "build")

\* an expression with '+' and '?' whose DFA took several worklist
\* iterations and whose refinement loop has ended after several passes
C24_Witness ==
  /\ pc = "build"
  /\ iteration >= 2
  /\ Cardinality(st.processed) >= 2
  /\ ~plus_iteration(regex).done
  /\ ~question_iteration(transform_plus_operator(regex)).done

(***************************************************************************)
(* C25: later stages read the automata without changing them:              *)
(* construct_dfa and NFA.simulate leave the NFA and all its states as they *)
(* are, minimize_dfa and DFA.simulate leave the DFA they are given and all *)
(* its states as they are, so the verdict of an automaton on a string is   *)
(* the same before and after these operations.                             *)
(***************************************************************************)
\* one step of construct_dfa, minimize_dfa or the simulations
C25_StepReadsOnly ==
  /\ pc \in {"dfa", "dfa_loop", "minimize", "refine", "build", "simulate"}
       => /\ heap' = heap
          /\ nfa' = nfa
          /\ \A w \in Words :
               nfa_simulate(heap', nfa', w) = nfa_simulate(heap, nfa, w)
  /\ pc \in {"minimize", "refine", "build", "simulate"}
       => /\ dfa' = dfa
          /\ \A w \in Words : dfa_simulate(dfa', w) = dfa_simulate(dfa, w)
  /\ (pc = "simulate" \/ (round = 2 /\ pc \in {"minimize", "refine", "build"}))
       => /\ minimized_dfa' = minimized_dfa
          /\ \A w \in Words :
               dfa_simulate(minimized_dfa', w)
                 = dfa_simulate(minimized_dfa, w)

\* after the later stages the automata are still the ones first built
C25_AutomataAsBuilt ==
  pc \in {"simulate", "reminimized", "done"} =>
    /\ [H |-> heap, nfa |-> nfa]
         = [H |-> construct_nfa(ast_root).H, nfa |-> construct_nfa(ast_root).nfa]
    /\ dfa = construct_dfa(heap, nfa)
    /\ pc = "done" =>
         resultado = [nfa |-> nfa_simulate(heap, nfa, cadena_w),
                      dfa |-> dfa_simulate(dfa, cadena_w),
                      min |-> dfa_simulate(minimized_dfa, cadena_w)]

C25_LaterStagesReadOnly ==
  [][C25_StepReadsOnly]_vars /\ [](C25_AutomataAsBuilt)

\* the NFA has been determinized and simulated, its DFA minimized (with
\* states merged) and simulated, and the string is accepted
C25_Witness ==
  /\ pc = "done"
  /\ Cardinality(dfa.states) >= 3
  /\ Cardinality(minimized_dfa.states) < Cardinality(dfa.states)
  /\ Len(cadena_w) >= 2
  /\ resultado.nfa

(***************************************************************************)
(* C26: state ids are fresh per automaton and the constructors are         *)
(* reusable: construct_nfa, construct_dfa and minimize_dfa (of a DFA with  *)
(* more than one state) number the states of what they build 0, 1, 2, ...  *)
(* without gaps, whatever the same objects built for earlier expressions,  *)
(* so the automata of an expression are those of compiling it alone.       *)
(***************************************************************************)
\* the ids of S are 0 .. |S| - 1
NumberedFromZero(S) == S = 0..(Cardinality(S) - 1)

C26_IdsAreFreshPerAutomaton ==
  /\ pc \in {"dfa", "dfa_loop", "minimize", "refine", "build", "simulate",
             "done"}
       => /\ NumberedFromZero(nfa.states)
          /\ heap.n = Cardinality(nfa.states)
          /\ nfa.states = Compile(regex).nfa.states
          /\ nfa.start_state = Compile(regex).nfa.start_state
  /\ pc = "dfa_loop"
       => {m[2] : m \in st.sc.memo} = 0..(st.sc.D.n - 1)
  /\ pc \in {"minimize", "refine", "build", "simulate", "done"}
       => /\ NumberedFromZero(dfa.states)
          /\ st.sc.D.n = Cardinality(dfa.states)
          /\ LET c == Compile(regex)
             IN dfa.states = construct_dfa(c.H, c.nfa).states
  /\ pc \in {"simulate", "done"}
       => /\ NumberedFromZero(minimized_dfa.states)
          /\ Cardinality(dfa.states) > 1
               => minimized_dfa.D.n = Cardinality(minimized_dfa.states)

\* the second expression of a batch, compiled by the objects that compiled
\* the first one, with automata of several states at every stage
C26_Witness ==
  /\ idx = 2
  /\ exitosas = 1
  /\ pc = "simulate"
  /\ Cardinality(dfa.states) > Cardinality(minimized_dfa.states)
  /\ Cardinality(minimized_dfa.states) >= 2
  /\ expresiones[1] # expresiones[2]

(***************************************************************************)
(* C27: every state of a minimized DFA emitted by the minimizer carries an *)
(* empty set of represented NFA states.                                    *)
(***************************************************************************)
C27_MinimizedStatesCarryNoNfaStates ==
  (pc = "simulate" /\ Cardinality(dfa.states) > 1) =>
    \A q \in minimized_dfa.states : SubsetOf(minimized_dfa, q) = {}

(***************************************************************************)
(* C28: for a regex containing the substring "0? (1? )? 0" the hard-coded  *)
(* substitution of transform_question_operator does not change the         *)
(* outcome: the result denotes the same language as the result of the      *)
(* general right-to-left rule X? -> (X|eps) alone, whatever precedes or    *)
(* follows the substring.                                                  *)
(***************************************************************************)
HasSpecialCase(r) == \E i \in 1..Len(r) : StartsWithAt(r, i, SpecialCase)

\* what reaches transform_question_operator
BeforeQuestion(r) ==
  LET regex1 == normalize_unicode_chars(r)
  IN IF Contains(regex1, "+") THEN transform_plus_operator(regex1)
     ELSE regex1

\* the rest of infix_to_postfix, from the desugared string on
PostfixOf(regex3) ==
  LET s == ShuntLoop(format_regex(regex3), 1,
                     [postfix |-> << >>, stack |-> << >>])
  IN s.postfix \o Reverse(s.stack)

\* the strings of Words accepted by the NFA of a postfix string
LangOfPostfix(p) ==
  LET a == build_ast(p)
      c == IF a.ok THEN construct_nfa(a.stack[1])
           ELSE [ok |-> FALSE, H |-> EmptyHeap, nfa |-> EmptyNfa]
  IN IF c.ok THEN {w \in Words : nfa_simulate(c.H, c.nfa, w)}
     ELSE {<<"error">>}

C28_SpecialCaseIsNeutral ==
  (pc = "ast" /\ HasSpecialCase(BeforeQuestion(regex)))
    => LangOfPostfix(postfix)
         = LangOfPostfix(PostfixOf(QuestionLoop(BeforeQuestion(regex))))

(***************************************************************************)
(* C29: every state of the DFA built by construct_dfa from a Thompson NFA  *)
(* is live: it is reachable from the start state and an accepting state is *)
(* reachable from it; and the classes the minimizer ends with, computed    *)
(* with a sentinel for a missing transition, put two states together       *)
(* exactly when they accept the same strings.                              *)
(***************************************************************************)
Live(d, q) ==
  /\ q \in CollectDfa(d.D, {d.start_state})
  /\ CollectDfa(d.D, {q}) \cap d.final_states # {}

C29_DfaStatesAreLive ==
  /\ pc \in {"minimize", "refine", "build", "simulate", "done"}
       => \A q \in dfa.states : Live(dfa, q)
  /\ (pc = "build" /\ round = 1)
       => \A p, q \in dfa.states :
            (\E i \in 1..Len(partitions) : {p, q} \subseteq partitions[i])
              <=> ~Distinguished(dfa, p, q)

\* the refinement of a DFA has ended with states merged into one class and
\* with two states of which only one has a transition on some symbol
C29_Witness ==
  /\ pc = "build"
  /\ round = 1
  /\ Len(partitions) >= 2
  /\ \E i \in 1..Len(partitions) : Cardinality(partitions[i]) >= 2
  /\ \E p, q \in dfa.states : \E a \in dfa.alphabet :
       HasTransition(dfa.D, p, a) /\ ~HasTransition(dfa.D, q, a)

(***************************************************************************)
(* C30: in the loop of construct_dfa every DFA state created is expanded   *)
(* exactly once: a popped subset whose key is already processed is skipped *)
(* without adding transitions, an unprocessed one is marked and only its   *)
(* own state gets transitions, every state is in the worklist from the     *)
(* moment it is created until it is processed, and when the worklist is    *)
(* empty the processed set is the set of memo keys.                        *)
(***************************************************************************)
\* the keys of the subsets waiting in a worklist
KeysOf(worklist) ==
  {_subset_to_key(worklist[i]) : i \in 1..Len(worklist)}

MemoKeys(memo) == {m[1] : m \in memo}

\* between two iterations of "while worklist"
C30_CreatedStatesAreQueued ==
  pc = "dfa_loop" =>
    /\ st.processed \subseteq MemoKeys(st.sc.memo)
    /\ KeysOf(st.worklist) \subseteq MemoKeys(st.sc.memo)
    /\ MemoKeys(st.sc.memo) \subseteq st.processed \cup KeysOf(st.worklist)
    /\ st.worklist = << >> => st.processed = MemoKeys(st.sc.memo)
    /\ \A t \in st.sc.D.trans :
         \E m \in st.sc.memo : m[2] = t[1] /\ m[1] \in st.processed

\* one iteration of "while worklist"
C30_IterationExpandsOnce ==
  (pc = "dfa_loop" /\ pc' = "dfa_loop") =>
    LET key == _subset_to_key(Head(st.worklist))
        current == MemoGet(st.sc.memo, key)
    IN IF key \in st.processed
       THEN /\ st'.sc = st.sc
            /\ st'.processed = st.processed
            /\ st'.worklist = Tail(st.worklist)
       ELSE /\ st'.processed = st.processed \cup {key}
            /\ st.sc.D.trans \subseteq st'.sc.D.trans
            /\ \A t \in st'.sc.D.trans \ st.sc.D.trans : t[1] = current
            /\ st.sc.memo \subseteq st'.sc.memo
            /\ MemoKeys(st'.sc.memo \ st.sc.memo) \subseteq KeysOf(st'.worklist)

C30_EveryStateExpandedOnce ==
  /\ [](C30_CreatedStatesAreQueued)
  /\ [][C30_IterationExpandsOnce]_vars
  /\ (pc = "dfa_loop")
       ~> (pc = "minimize" /\ st.processed = MemoKeys(st.sc.memo))

\* the subset at the head of the worklist was enqueued twice and has been
\* processed since: the next iteration skips it
C30_Witness ==
  /\ pc = "dfa_loop"
  /\ st.worklist # << >>
  /\ _subset_to_key(Head(st.worklist)) \in st.processed
  /\ Cardinality(st.processed) >= 3

====
